---- MODULE Spec2Model ----
(***************************************************************************)
(* Model of the audio capture-and-encode pipeline of global-hotkey:        *)
(*   src-tauri/src/audio/recorder.rs  (AudioRecorderHandle)                *)
(*   src-tauri/src/audio/encoder.rs   (encode_to_opus, resample_for_opus,   *)
(*                                     wrap_in_ogg)                        *)
(*                                                                         *)
(* Spec     the capture session: start(), the worker thread, the device    *)
(*          callback, is_recording(), stop() and the drop of a handle.      *)
(* SpecEnc  the lossy encoder: rate selection, quantisation, framing,       *)
(*          per-frame encoding and the Ogg muxer, one loop iteration per    *)
(*          action.                                                         *)
(*                                                                         *)
(* A sample (f32) is represented exactly by its numerator over SampleDen,   *)
(* so that v / 32768 and s * 32767 are both integer computations.           *)
(***************************************************************************)
EXTENDS Integers, Sequences, FiniteSets, TLC

VARIABLES
  \* ---- the machine ----
  dev_cfg,       \* the default input config of the machine's input device
  \* ---- capture session, one entry per call of start() ----
  call,          \* the caller's view of the call / the handle
  cfg,           \* the device's default input config read by start()
  sample_rate,   \* AudioRecorderHandle.sample_rate
  channels,      \* AudioRecorderHandle.channels
  samples,       \* per call: <<>>, or <<the Vec behind Arc<Mutex<Vec<f32>>>>>
  is_recording,  \* Arc<AtomicBool>
  command_q,     \* Stop messages in flight on the mpsc channel
  tx_alive,      \* the Sender (command_tx) has not been dropped
  worker,        \* position of the worker thread
  stream,        \* the cpal input stream owned by the worker
  cb,            \* position of the device's capture callback
  delivered,     \* blocks the device has delivered so far
  stop_ret,      \* per call: <<>>, or the triple returned by stop()
  poisoned,      \* per call: the Mutex of the shared buffer is poisoned
  \* ---- encoder ----
  enc_pc,        \* position inside encode_to_opus / wrap_in_ogg
  in_samples,    \* encode_to_opus argument samples
  in_rate,       \* encode_to_opus argument sample_rate
  in_channels,   \* encode_to_opus argument channels
  resampled,     \* result of resample_for_opus (buffer)
  target_rate,   \* result of resample_for_opus (rate)
  resampler_ran, \* the SincFixedIn resampler was constructed
  samples_i16,   \* the quantised stream
  rest,          \* what the chunks() iterator has not yielded yet
  encoded_frames,\* Vec<Vec<u8>> of encode_to_opus: one blob per encoded frame
  mux_i,         \* loop index of wrap_in_ogg
  output,        \* packets written by wrap_in_ogg, in order
  enc_result,    \* what encode_to_opus returned: Ok or Err
  enc_err,       \* the message of the AppError::Audio it returned
  ogg_data,      \* the bytes it returned: <<>> or <<the packets written>>
  \* ---- lossless encoder ----
  wav_pc,        \* position inside encode_to_wav
  wav_file,      \* the WavSpec and the 16-bit values written to the cursor
  wav_ret,       \* what encode_to_wav returned
  \* ---- application commands (lib.rs) ----
  AUDIO_RECORDER,\* the static slot: 0 for None, or the call whose handle it holds
  guard,         \* the MutexGuard of the slot: 0 when free, or the call whose
                 \* handle the stop command holding it took out
  starting,      \* calls whose handle a start command holds, not stored yet
  \* ---- hotkeys (hotkey/manager.rs) ----
  REGISTRY,      \* the entries of the static HashMap: records id, hotkey, binding
  MANAGER,       \* the thread-local Option<GlobalHotKeyManager> is Some
  os_registered, \* the HotKeys registered with the operating system
  \* ---- keystroke simulation (postaction/input.rs) ----
  held,          \* the keys the simulated keyboard holds down
  key_events,    \* the key events the last call sent, in order
  in_ret,        \* what the last call returned: "none", "ok" or "err"
  \* ---- configuration files (config/manager.rs) and role commands (lib.rs) ----
  main_file,     \* config.json: <<>> when absent, else <<content>>
  backup_file,   \* config.backup.json: <<>> when absent, else <<content>>
  pre_save,      \* history: <<>> before any successful save_config, else
                 \* <<m>> with m the main file just before the latest one
  cm_last,       \* the last thing that happened to the files and its result
  role_cmd       \* per role command in flight: <<>> or <<what it loaded>>

rec_vars == <<dev_cfg, call, cfg, sample_rate, channels, samples, is_recording, command_q,
  tx_alive, worker, stream, cb, delivered, stop_ret, poisoned>>

enc_vars == <<enc_pc, in_samples, in_rate, in_channels, resampled, target_rate,
  resampler_ran, samples_i16, rest, encoded_frames, mux_i, output,
  enc_result, enc_err, ogg_data>>

wav_vars == <<wav_pc, wav_file, wav_ret>>

app_vars == <<AUDIO_RECORDER, guard, starting>>

hk_vars == <<REGISTRY, MANAGER, os_registered>>

\* the state outside the audio pipeline
in_vars == <<held, key_events, in_ret>>

cm_vars == <<main_file, backup_file, pre_save, cm_last, role_cmd>>

ext_vars == <<hk_vars, in_vars, cm_vars>>

\* the state of the audio pipeline and its commands
audio_vars == <<rec_vars, enc_vars, wav_vars, app_vars>>

vars == <<rec_vars, enc_vars, wav_vars, app_vars, ext_vars>>

(***************************************************************************)
(* Bounds                                                                  *)
(***************************************************************************)
\* calls of start() in one run
MaxCalls == 2

\* blocks one device stream delivers
MaxBlocks == 2

\* frames per delivered block
BlockFrames == 1

Calls == 1..MaxCalls

(***************************************************************************)
(* Samples                                                                 *)
(***************************************************************************)
\* recorder.rs:89, 107: the divisor of the integer formats
I16Div == 32768

\* encoder.rs:25: the scale of the quantiser
I16Scale == 32767

\* a sample s is the integer s * SampleDen
SampleDen == I16Div * I16Scale

None == "none"

\* a call that has no shared buffer (start() has not created one)
NoBuffer == <<>>

\* a call whose stop() has not returned a value
NotReturned == <<>>

(***************************************************************************)
(* The input device (cpal)                                                 *)
(***************************************************************************)
\* default input configs a device may report: rate, channel count, format
NativeConfigs == {
  [rate |-> 16000, ch |-> 1, fmt |-> "F32"],
  [rate |-> 44100, ch |-> 2, fmt |-> "I16"],
  [rate |-> 48000, ch |-> 2, fmt |-> "U16"],
  [rate |-> 44100, ch |-> 1, fmt |-> "I8"] }

NoConfig == [rate |-> 0, ch |-> 0, fmt |-> None]

\* the raw value the device delivers at position p of block k
RawSample(fmt, k, p) ==
  CASE fmt = "F32" -> (k * 4 + p) * 1000003 - 5 * 1000003
    [] fmt = "I16" -> 0 - (k * 300 + p)
    [] fmt = "U16" -> I16Div + k * 500 + p
    [] OTHER -> 0

RawBlock(c, k) == [p \in 1..(c.ch * BlockFrames) |-> RawSample(c.fmt, k, p)]

\* the conversion done by the capture callback of each sample format
ToF32(fmt, v) ==
  CASE fmt = "F32" -> v
    [] fmt = "I16" -> v * (SampleDen \div I16Div)
    [] fmt = "U16" -> (v - I16Div) * (SampleDen \div I16Div)
    [] OTHER -> 0

\* the last value of each block lost
ConvertBlock_DropLast(fmt, block) == [p \in 1..(Len(block) - 1) |-> ToF32(fmt, block[p])]

ConvertBlock(fmt, block) == [p \in 1..Len(block) |-> ToF32(fmt, block[p])]

(***************************************************************************)
(* Capture session: derived views                                          *)
(***************************************************************************)
StartOk(i) ==
  call[i] \in {"live", "stop_sent", "stop_joined", "stop_ok", "stop_err", "dropped"}

\* the Vec behind samples: Arc<Mutex<Vec<f32>>> of call i
Buffer(i) == samples[i][1]

StartErr(i) == call[i] \in {"err_no_device", "err_config"}

HandleLive(i) == call[i] = "live"

SetupFailed == {"exit_no_device", "exit_unsupported", "exit_build_err", "exit_play_err"}

WorkerExited(i) == worker[i] \in (SetupFailed \cup {"exited"})

WorkerAlive(i) == worker[i] \notin (SetupFailed \cup {"exited", None})

StreamAlive(i) == stream[i] \in {"built", "playing"}

\* AudioRecorderHandle::is_recording
is_recording_call(i) == is_recording[i]

(***************************************************************************)
(* Initial states                                                          *)
(***************************************************************************)
InitRec ==
  /\ dev_cfg \in NativeConfigs
  /\ call = [i \in Calls |-> None]
  /\ cfg = [i \in Calls |-> NoConfig]
  /\ sample_rate = [i \in Calls |-> 0]
  /\ channels = [i \in Calls |-> 0]
  /\ samples = [i \in Calls |-> NoBuffer]
  /\ is_recording = [i \in Calls |-> FALSE]
  /\ command_q = [i \in Calls |-> 0]
  /\ tx_alive = [i \in Calls |-> FALSE]
  /\ worker = [i \in Calls |-> None]
  /\ stream = [i \in Calls |-> None]
  /\ cb = [i \in Calls |-> "idle"]
  /\ delivered = [i \in Calls |-> 0]
  /\ stop_ret = [i \in Calls |-> NotReturned]
  /\ poisoned = [i \in Calls |-> FALSE]

EncIdle ==
  /\ enc_pc = "idle"
  /\ in_samples = <<>>
  /\ in_rate = 0
  /\ in_channels = 0
  /\ resampled = <<>>
  /\ target_rate = 0
  /\ resampler_ran = FALSE
  /\ samples_i16 = <<>>
  /\ rest = <<>>
  /\ encoded_frames = <<>>
  /\ mux_i = 0
  /\ output = <<>>
  /\ enc_result = None
  /\ enc_err = None
  /\ ogg_data = <<>>

NoWavFile == [spec |-> None, data |-> <<>>]

NoReturn == [result |-> None, err |-> None, data |-> <<>>]

WavIdle ==
  /\ wav_pc = "idle"
  /\ wav_file = NoWavFile
  /\ wav_ret = NoReturn

\* static AUDIO_RECORDER = Mutex::new(None); no command has run
AppIdle ==
  /\ AUDIO_RECORDER = 0
  /\ guard = 0
  /\ starting = {}

\* REGISTRY = HashMap::new(), MANAGER = None, nothing registered
HotkeyIdle ==
  /\ REGISTRY = {}
  /\ MANAGER = FALSE
  /\ os_registered = {}

\* a fresh InputSimulator: no key is down, nothing was called
InputIdle ==
  /\ held = {}
  /\ key_events = <<>>
  /\ in_ret = "none"

\* the most role commands in flight at once
MaxRoleCmds == 2

RoleCmds == 1..MaxRoleCmds

\* AppConfig::default() (schema.rs): version "1.0.0", no hotkeys, no roles;
\* a hotkey is modelled by its id, a role by id, name and is_builtin
DefaultConfig == [version |-> "1.0.0", hotkeys |-> <<>>, roles |-> <<>>]

\* a file whose text parses to the AppConfig c
Parsed(c) == [parse |-> TRUE, cfg |-> c]

\* a file whose text serde_json cannot parse
Garbage == [parse |-> FALSE, cfg |-> [version |-> "", hotkeys |-> <<>>, roles |-> <<>>]]

\* nothing has happened to the files yet
NoCall == [op |-> "none", ok |-> TRUE, cfg |-> <<>>, unparsable |-> FALSE,
           before |-> <<<<>>, <<>>>>]

\* after config::manager::init() on a fresh installation: the main file holds
\* the default configuration, there is no backup, no command runs
ConfigIdle ==
  /\ main_file = <<Parsed(DefaultConfig)>>
  /\ backup_file = <<>>
  /\ pre_save = <<<<>>>>
  /\ cm_last = NoCall
  /\ role_cmd = [t \in RoleCmds |-> <<>>]

ExtIdle == HotkeyIdle /\ InputIdle /\ ConfigIdle

Init == InitRec /\ EncIdle /\ WavIdle /\ AppIdle /\ ExtIdle

(***************************************************************************)
(* AudioRecorderHandle::start                                              *)
(***************************************************************************)
\* the caller is done with a handle: start() failed, stop() returned, or the
\* handle was dropped
HandleGone(i) ==
  call[i] \in {"err_no_device", "err_config", "stop_ok", "stop_err", "dropped"}

\* a handle owned by the application: held by a start command, stored in the
\* slot, or taken out by the stop command that holds the lock
AppOwns(j) == j \in starting \/ j = AUDIO_RECORDER \/ j = guard

\* the next call of start(): calls are numbered in the order they are made, and
\* a direct owner of a handle gives it up (stop or drop) before it starts
\* another session, while the application's commands start sessions whenever
\* they are invoked; handles share no state, and a dropped handle's detached
\* worker still runs beside the next session
NextCall(i) ==
  /\ call[i] = None
  /\ \A j \in Calls : j < i => HandleGone(j) \/ AppOwns(j)

\* the device test made only after the thread was spawned
StartNoDevice_AfterSpawn(i) ==
  /\ NextCall(i)
  /\ worker' = [worker EXCEPT ![i] = "spawned"]
  /\ call' = [call EXCEPT ![i] = "err_no_device"]
  /\ UNCHANGED <<dev_cfg, cfg, sample_rate, channels, samples, is_recording, command_q,
       tx_alive, stream, cb, delivered, stop_ret, poisoned>>

\* host.default_input_device() is None
StartNoDevice(i) ==
  /\ NextCall(i)
  /\ call' = [call EXCEPT ![i] = "err_no_device"]
  /\ UNCHANGED <<dev_cfg, cfg, sample_rate, channels, samples, is_recording, command_q,
       tx_alive, worker, stream, cb, delivered, stop_ret, poisoned>>

\* device.default_input_config() is Err
StartConfigErr(i) ==
  /\ NextCall(i)
  /\ call' = [call EXCEPT ![i] = "err_config"]
  /\ UNCHANGED <<dev_cfg, cfg, sample_rate, channels, samples, is_recording, command_q,
       tx_alive, worker, stream, cb, delivered, stop_ret, poisoned>>

\* the config is read, the shared state is created, the worker is spawned
StartSpawn(i) ==
  /\ NextCall(i)
  /\ cfg' = [cfg EXCEPT ![i] = dev_cfg]
  /\ sample_rate' = [sample_rate EXCEPT ![i] = dev_cfg.rate]
  /\ channels' = [channels EXCEPT ![i] = dev_cfg.ch]
  /\ samples' = [samples EXCEPT ![i] = <<<<>>>>]
  /\ is_recording' = [is_recording EXCEPT ![i] = TRUE]
  /\ command_q' = [command_q EXCEPT ![i] = 0]
  /\ tx_alive' = [tx_alive EXCEPT ![i] = TRUE]
  /\ worker' = [worker EXCEPT ![i] = "spawned"]
  /\ call' = [call EXCEPT ![i] = "live"]
  /\ UNCHANGED <<dev_cfg, stream, cb, delivered, stop_ret, poisoned>>

(***************************************************************************)
(* The worker thread                                                       *)
(***************************************************************************)
\* host.default_input_device() inside the thread
WorkerDevice(i) ==
  /\ worker[i] = "spawned"
  /\ \E found \in BOOLEAN :
       worker' = [worker EXCEPT ![i] = IF found THEN "got_device" ELSE "exit_no_device"]
  /\ UNCHANGED <<dev_cfg, call, cfg, sample_rate, channels, samples, is_recording,
       command_q, tx_alive, stream, cb, delivered, stop_ret, poisoned>>

SupportedFormats == {"F32", "I16", "U16"}

\* match config_clone.sample_format() and device.build_input_stream(..)
WorkerBuild(i) ==
  /\ worker[i] = "got_device"
  /\ IF cfg[i].fmt \notin SupportedFormats
       THEN /\ worker' = [worker EXCEPT ![i] = "exit_unsupported"]
            /\ UNCHANGED stream
       ELSE \E built \in BOOLEAN :
              IF built
                THEN /\ worker' = [worker EXCEPT ![i] = "built"]
                     /\ stream' = [stream EXCEPT ![i] = "built"]
                ELSE /\ worker' = [worker EXCEPT ![i] = "exit_build_err"]
                     /\ UNCHANGED stream
  /\ UNCHANGED <<dev_cfg, call, cfg, sample_rate, channels, samples, is_recording,
       command_q, tx_alive, cb, delivered, stop_ret, poisoned>>

\* stream.play() succeeds
WorkerPlay(i) ==
  /\ worker[i] = "built"
  /\ worker' = [worker EXCEPT ![i] = "waiting"]
  /\ stream' = [stream EXCEPT ![i] = "playing"]
  /\ UNCHANGED <<dev_cfg, call, cfg, sample_rate, channels, samples, is_recording,
       command_q, tx_alive, cb, delivered, stop_ret, poisoned>>

\* stream.play() fails: the closure returns and the stream is dropped, which
\* waits for a running callback
WorkerPlayErr(i) ==
  /\ worker[i] = "built"
  /\ cb[i] = "idle"
  /\ worker' = [worker EXCEPT ![i] = "exit_play_err"]
  /\ stream' = [stream EXCEPT ![i] = "dropped"]
  /\ UNCHANGED <<dev_cfg, call, cfg, sample_rate, channels, samples, is_recording,
       command_q, tx_alive, cb, delivered, stop_ret, poisoned>>

\* command_rx.recv() returns Ok(Stop)
WorkerRecvStop(i) ==
  /\ worker[i] = "waiting"
  /\ command_q[i] > 0
  /\ command_q' = [command_q EXCEPT ![i] = @ - 1]
  /\ worker' = [worker EXCEPT ![i] = "left_loop"]
  /\ UNCHANGED <<dev_cfg, call, cfg, sample_rate, channels, samples, is_recording,
       tx_alive, stream, cb, delivered, stop_ret, poisoned>>

\* a closed channel taken for "no command yet": the loop goes on
WorkerRecvClosed_KeepWaiting(i) ==
  /\ worker[i] = "waiting"
  /\ command_q[i] = 0
  /\ ~tx_alive[i]
  /\ UNCHANGED rec_vars

\* command_rx.recv() returns Err: the channel is empty and the Sender is gone
WorkerRecvClosed(i) ==
  /\ worker[i] = "waiting"
  /\ command_q[i] = 0
  /\ ~tx_alive[i]
  /\ worker' = [worker EXCEPT ![i] = "left_loop"]
  /\ UNCHANGED <<dev_cfg, call, cfg, sample_rate, channels, samples, is_recording,
       command_q, tx_alive, stream, cb, delivered, stop_ret, poisoned>>

\* is_recording_clone.store(false)
WorkerStoreFlag(i) ==
  /\ worker[i] = "left_loop"
  /\ is_recording' = [is_recording EXCEPT ![i] = FALSE]
  /\ worker' = [worker EXCEPT ![i] = "flag_stored"]
  /\ UNCHANGED <<dev_cfg, call, cfg, sample_rate, channels, samples, command_q,
       tx_alive, stream, cb, delivered, stop_ret, poisoned>>

\* the closure ends: the stream is dropped (waiting for a running callback),
\* the Receiver is dropped, the thread terminates
WorkerExit(i) ==
  /\ worker[i] = "flag_stored"
  /\ cb[i] = "idle"
  /\ stream' = [stream EXCEPT ![i] = "dropped"]
  /\ worker' = [worker EXCEPT ![i] = "exited"]
  /\ UNCHANGED <<dev_cfg, call, cfg, sample_rate, channels, samples, is_recording,
       command_q, tx_alive, cb, delivered, stop_ret, poisoned>>

(***************************************************************************)
(* The capture callback, run by the device while the stream exists         *)
(***************************************************************************)
\* the device delivers a block; the callback loads the flag
CallbackLoad(i) ==
  /\ StreamAlive(i)
  /\ cb[i] = "idle"
  /\ delivered[i] < MaxBlocks
  /\ delivered' = [delivered EXCEPT ![i] = @ + 1]
  /\ cb' = [cb EXCEPT ![i] = IF is_recording[i] THEN "flag_true" ELSE "idle"]
  /\ UNCHANGED <<dev_cfg, call, cfg, sample_rate, channels, samples, is_recording,
       command_q, tx_alive, worker, stream, stop_ret, poisoned>>

\* the block put in front of the buffer
CallbackAppend_Prepend(i) ==
  /\ cb[i] = "flag_true"
  /\ samples' = [samples EXCEPT ![i] =
       <<ConvertBlock(cfg[i].fmt, RawBlock(cfg[i], delivered[i])) \o Buffer(i)>>]
  /\ cb' = [cb EXCEPT ![i] = "idle"]
  /\ UNCHANGED <<dev_cfg, call, cfg, sample_rate, channels, is_recording, command_q,
       tx_alive, worker, stream, delivered, stop_ret, poisoned>>

\* a poisoned lock taken all the same (PoisonError::into_inner)
CallbackBuffer_IntoInner(i) ==
  Buffer(i) \o ConvertBlock(cfg[i].fmt, RawBlock(cfg[i], delivered[i]))

\* if let Ok(mut s) = samples.lock() { s.extend_from_slice(..) }: the buffer
\* after the callback; a poisoned lock gives Err and the block is discarded
CallbackBuffer(i) ==
  IF poisoned[i]
    THEN Buffer(i)
    ELSE Buffer(i) \o ConvertBlock(cfg[i].fmt, RawBlock(cfg[i], delivered[i]))

\* samples.lock() and the append of the converted block
CallbackAppend(i) ==
  /\ cb[i] = "flag_true"
  /\ samples' = [samples EXCEPT ![i] = <<CallbackBuffer(i)>>]
  /\ cb' = [cb EXCEPT ![i] = "idle"]
  /\ UNCHANGED <<dev_cfg, call, cfg, sample_rate, channels, is_recording, command_q,
       tx_alive, worker, stream, delivered, stop_ret, poisoned>>

(***************************************************************************)
(* AudioRecorderHandle::stop and the drop of a handle                      *)
(***************************************************************************)
\* self.command_tx.send(Stop); the result is ignored. The send fails when the
\* Receiver is gone, that is when the worker's closure has ended.
StopSend(i) ==
  /\ call[i] = "live"
  /\ call' = [call EXCEPT ![i] = "stop_sent"]
  /\ command_q' = [command_q EXCEPT ![i] = IF WorkerExited(i) THEN @ ELSE @ + 1]
  /\ UNCHANGED <<dev_cfg, cfg, sample_rate, channels, samples, is_recording, tx_alive,
       worker, stream, cb, delivered, stop_ret, poisoned>>

\* a stop() that does not wait for the worker thread
JoinReturns_NoWait(i) == TRUE

\* handle.join() returns once the thread has terminated
JoinReturns(i) == WorkerExited(i)

StopJoin(i) ==
  /\ call[i] = "stop_sent"
  /\ JoinReturns(i)
  /\ call' = [call EXCEPT ![i] = "stop_joined"]
  /\ UNCHANGED <<dev_cfg, cfg, sample_rate, channels, samples, is_recording, command_q,
       tx_alive, worker, stream, cb, delivered, stop_ret, poisoned>>

\* what stop() returns: the clone of the buffer, the rate, the channel count
StopValue(i) == <<Buffer(i), sample_rate[i], channels[i]>>

\* self.samples.lock().clone(), Ok(..); self is dropped on return. The lock is
\* free: the callback takes it only inside CallbackAppend.
StopReturn(i) ==
  /\ call[i] = "stop_joined"
  /\ ~poisoned[i]
  /\ stop_ret' = [stop_ret EXCEPT ![i] = StopValue(i)]
  /\ tx_alive' = [tx_alive EXCEPT ![i] = FALSE]
  /\ call' = [call EXCEPT ![i] = "stop_ok"]
  /\ UNCHANGED <<dev_cfg, cfg, sample_rate, channels, samples, is_recording, command_q,
       worker, stream, cb, delivered, poisoned>>

\* self.samples.lock() is Err: stop() returns Err("Failed to lock samples")
\* and no buffer; self is dropped on return
StopReturnErr(i) ==
  /\ call[i] = "stop_joined"
  /\ poisoned[i]
  /\ tx_alive' = [tx_alive EXCEPT ![i] = FALSE]
  /\ call' = [call EXCEPT ![i] = "stop_err"]
  /\ UNCHANGED <<dev_cfg, cfg, sample_rate, channels, samples, is_recording, command_q,
       worker, stream, cb, delivered, stop_ret, poisoned>>

\* a handle goes out of scope without stop(): the Sender is dropped, the
\* thread is detached
DropHandle(i) ==
  /\ call[i] = "live"
  /\ call' = [call EXCEPT ![i] = "dropped"]
  /\ tx_alive' = [tx_alive EXCEPT ![i] = FALSE]
  /\ UNCHANGED <<dev_cfg, cfg, sample_rate, channels, samples, is_recording, command_q,
       worker, stream, cb, delivered, stop_ret, poisoned>>

NextRec ==
  \E i \in Calls :
    \/ StartNoDevice(i)
    \/ StartConfigErr(i)
    \/ StartSpawn(i)
    \/ WorkerDevice(i)
    \/ WorkerBuild(i)
    \/ WorkerPlay(i)
    \/ WorkerPlayErr(i)
    \/ WorkerRecvStop(i)
    \/ WorkerRecvClosed(i)
    \/ WorkerStoreFlag(i)
    \/ WorkerExit(i)
    \/ CallbackLoad(i)
    \/ CallbackAppend(i)
    \/ StopSend(i)
    \/ StopJoin(i)
    \/ StopReturn(i)
    \/ DropHandle(i)

Next == NextRec /\ UNCHANGED <<enc_vars, wav_vars, app_vars, ext_vars>>

Spec == Init /\ [][Next]_vars

(***************************************************************************)
(* Encoder: bounds and inputs                                              *)
(***************************************************************************)
\* whole frames in an input buffer or in a resampler output
MaxFrames == 2

\* native rates tried: around every tier boundary, common device rates, far out
InRates ==
  {0, 7999, 8000, 8001, 11025, 12000, 12001, 16000, 16001, 22050, 24000,
   24001, 44100, 48000, 48001, 96000}

ChannelCounts == {1, 2}

\* sample p of the generated buffer number seed; some values lie outside [-1, 1]
GenSample(seed, p) == (((p * 7919 + seed * 131) % 3001) - 1500) * 1000003

GenBuffer(seed, len) == [p \in 1..len |-> GenSample(seed, p)]

\* buffer lengths next to the multiples of a frame of fl values
LensAround(fl, step) ==
  {l \in {k * fl + d : k \in 0..MaxFrames, d \in {0 - step, 0, step}} :
     l >= 0 /\ l <= MaxFrames * fl}

(***************************************************************************)
(* Encoder: pure parts                                                     *)
(***************************************************************************)
\* encoder.rs:53: 20 ms frames
FramesPerSecond == 50

\* encoder.rs:204: the reference rate of the granule position
GranuleRate == 48000

\* encoder.rs:170
PreSkip == 312

OpusRates == {8000, 12000, 16000, 24000, 48000}

\* the tiers compared with < where the code has <=
SelectTargetRate_Strict(r) ==
  IF r < 8000 THEN 8000
  ELSE IF r < 12000 THEN 12000
  ELSE IF r < 16000 THEN 16000
  ELSE IF r < 24000 THEN 24000
  ELSE 48000

\* resample_for_opus: let target_rate = match sample_rate { .. }
SelectTargetRate(r) ==
  IF r <= 8000 THEN 8000
  ELSE IF r <= 12000 THEN 12000
  ELSE IF r <= 16000 THEN 16000
  ELSE IF r <= 24000 THEN 24000
  ELSE 48000

\* a resample_for_opus without the early return
NeedsResampling_Always(rate, target) == TRUE

\* resample_for_opus: the early return is not taken
NeedsResampling(rate, target) == rate # target

Clamp(s, lo, hi) == IF s < lo THEN lo ELSE IF s > hi THEN hi ELSE s

\* a float to integer cast truncates toward zero
TruncDiv(a, b) == IF a >= 0 THEN a \div b ELSE 0 - ((0 - a) \div b)

\* the quantiser of the lossy path with a scale of 32768
Quantize_Scale32768(s) ==
  TruncDiv(Clamp(s, 0 - SampleDen, SampleDen), SampleDen \div I16Div)

\* (s.clamp(-1.0, 1.0) * 32767.0) as i16; x / SampleDen * 32767 = x / 32768
Quantize(s) == TruncDiv(Clamp(s, 0 - SampleDen, SampleDen), SampleDen \div I16Scale)

QuantizeAll(buf) == [p \in 1..Len(buf) |-> Quantize(buf[p])]

\* let frame_size = (target_rate as usize) / 50
FrameSize(tr) == tr \div FramesPerSecond

\* frame_size * channels as usize
FrameLen(tr, ch) == FrameSize(tr) * ch

Min(a, b) == IF a < b THEN a ELSE b

\* chunks_exact(n): a short remainder is not yielded
ChunksHasNext_Exact(r, n) == Len(r) >= n

\* slice::chunks(n): the iterator yields while the slice is not empty
ChunksHasNext(r, n) == r # <<>>

\* slice::chunks(n): the next chunk is the first min(n, len) values
ChunkHead(r, n) == SubSeq(r, 1, Min(n, Len(r)))

ChunkTail(r, n) == SubSeq(r, Min(n, Len(r)) + 1, Len(r))

\* a short chunk passed on as it is
PadFrame_NoPad(chunk, n) == chunk

\* padded.resize(n, 0) of a short chunk, chunk.to_vec() of a full one
PadFrame(chunk, n) ==
  IF Len(chunk) < n
    THEN chunk \o [p \in 1..(n - Len(chunk)) |-> 0]
    ELSE chunk

\* Encoder::encode: the blob the codec returns for one frame
OpusEncode(frame) == [pcm |-> frame]

\* the Opus identification header
IdHeader(rate, ch) ==
  [magic |-> "OpusHead", version |-> 1, channels |-> ch % 256, pre_skip |-> PreSkip,
   input_rate |-> rate, gain |-> 0, mapping |-> 0]

\* the Opus comment header
CommentHeader == [magic |-> "OpusTags", vendor |-> "global-hotkey", comments |-> 0]

Packet(payload, serial, end_info, granule) ==
  [payload |-> payload, serial |-> serial, end_info |-> end_info, granule |-> granule]

\* the frame size used as it is, not converted to the 48 kHz reference
GranuleIncrement_Unscaled(frame_size, rate) == frame_size

\* wrap_in_ogg: samples_per_frame * 48000 / sample_rate
GranuleIncrement(frame_size, rate) == (frame_size * GranuleRate) \div rate

\* the last-frame test off by one
IsLast_OffByOne(i, len) == i = len

\* wrap_in_ogg: let is_last = i == encoded_frames.len() - 1 (i counts from 0)
IsLast(i, len) == i = len - 1

EndInfo(i, len) == IF IsLast(i, len) THEN "EndStream" ELSE "NormalPacket"

\* the frames written back to front
FrameOfIteration_Reversed(frames, i) == frames[Len(frames) - i]

\* wrap_in_ogg: the frame written by iteration i of the loop (i counts from 0)
FrameOfIteration(frames, i) == frames[i + 1]

(***************************************************************************)
(* Encoder: initial states                                                 *)
(***************************************************************************)
RecIdle ==
  /\ dev_cfg = NoConfig
  /\ call = [i \in Calls |-> None]
  /\ cfg = [i \in Calls |-> NoConfig]
  /\ sample_rate = [i \in Calls |-> 0]
  /\ channels = [i \in Calls |-> 0]
  /\ samples = [i \in Calls |-> NoBuffer]
  /\ is_recording = [i \in Calls |-> FALSE]
  /\ command_q = [i \in Calls |-> 0]
  /\ tx_alive = [i \in Calls |-> FALSE]
  /\ worker = [i \in Calls |-> None]
  /\ stream = [i \in Calls |-> None]
  /\ cb = [i \in Calls |-> "idle"]
  /\ delivered = [i \in Calls |-> 0]
  /\ stop_ret = [i \in Calls |-> NotReturned]
  /\ poisoned = [i \in Calls |-> FALSE]

\* lengths of the input buffer: next to the frame multiples when the buffer
\* is framed as it is, an empty, an odd and an even one when it goes through
\* the resampler first
InputLens(rate, ch) ==
  IF rate \in OpusRates
    THEN LensAround(FrameLen(rate, ch), 1)
    ELSE {0, 3, 4}

\* encode_to_opus(samples, sample_rate, channels) has just been called
InitEnc ==
  /\ RecIdle
  /\ AppIdle
  /\ ExtIdle
  /\ enc_pc = "called"
  /\ in_rate \in InRates
  /\ in_channels \in ChannelCounts
  /\ \E len \in InputLens(in_rate, in_channels) : in_samples = GenBuffer(1, len)
  /\ resampled = <<>>
  /\ target_rate = 0
  /\ resampler_ran = FALSE
  /\ samples_i16 = <<>>
  /\ rest = <<>>
  /\ encoded_frames = <<>>
  /\ mux_i = 0
  /\ output = <<>>
  /\ enc_result = None
  /\ enc_err = None
  /\ ogg_data = <<>>
  /\ WavIdle

(***************************************************************************)
(* Results                                                                 *)
(***************************************************************************)
\* an error swallowed: what was written so far is returned as Ok
Propagate_Partial(msg, partial) == [result |-> "Ok", err |-> None, data |-> <<partial>>]

\* .map_err(|e| AppError::Audio(..))?: the function returns Err(message) and
\* what it had built so far is dropped
Propagate(msg, partial) == [result |-> "Err", err |-> msg, data |-> <<>>]

\* encode_to_opus returns r to its caller
Returns(r) ==
  /\ enc_result' = r.result
  /\ enc_err' = r.err
  /\ ogg_data' = r.data

\* the message of a failed write_packet, by the packet being written
WriteErrMsg(pc) ==
  CASE pc = "mux_id" -> "Failed to write Opus header"
    [] pc = "mux_comment" -> "Failed to write Opus comment"
    [] OTHER -> "Failed to write Opus frame"

(***************************************************************************)
(* resample_for_opus                                                       *)
(***************************************************************************)
\* sample_rate == target_rate: return Ok((samples.to_vec(), target_rate))
ResampleIdentity ==
  /\ enc_pc = "called"
  /\ ~NeedsResampling(in_rate, SelectTargetRate(in_rate))
  /\ target_rate' = SelectTargetRate(in_rate)
  /\ resampled' = in_samples
  /\ enc_pc' = "resampled"
  /\ UNCHANGED <<in_samples, in_rate, in_channels, resampler_ran, samples_i16,
       rest, encoded_frames, mux_i, output, enc_result, enc_err, ogg_data>>

\* what SincFixedIn::process may return, interleaved again: resampled_len
\* values per channel
ResamplerOutputs(tr, ch) ==
  {GenBuffer(2, len) : len \in LensAround(FrameLen(tr, ch), ch)}

\* the resampler is constructed and run, and both succeed
ResampleRun ==
  /\ enc_pc = "called"
  /\ NeedsResampling(in_rate, SelectTargetRate(in_rate))
  /\ target_rate' = SelectTargetRate(in_rate)
  /\ resampler_ran' = TRUE
  /\ \E out \in ResamplerOutputs(SelectTargetRate(in_rate), in_channels) :
       resampled' = out
  /\ enc_pc' = "resampled"
  /\ UNCHANGED <<in_samples, in_rate, in_channels, samples_i16, rest,
       encoded_frames, mux_i, output, enc_result, enc_err, ogg_data>>

\* SincFixedIn::new or process fails: the error is propagated by ?
ResampleErr ==
  /\ enc_pc = "called"
  /\ NeedsResampling(in_rate, SelectTargetRate(in_rate))
  /\ resampler_ran' = TRUE
  /\ \E msg \in {"Failed to create resampler", "Failed to resample audio"} :
       Returns(Propagate(msg, output))
  /\ enc_pc' = "returned"
  /\ UNCHANGED <<in_samples, in_rate, in_channels, resampled, target_rate,
       samples_i16, rest, encoded_frames, mux_i, output>>

(***************************************************************************)
(* encode_to_opus                                                          *)
(***************************************************************************)
\* the quantisation, Encoder::new and set_bitrate succeed; the chunks()
\* iterator is created over the whole quantised stream
EncoderInit ==
  /\ enc_pc = "resampled"
  /\ samples_i16' = QuantizeAll(resampled)
  /\ rest' = QuantizeAll(resampled)
  /\ enc_pc' = "encoding"
  /\ UNCHANGED <<in_samples, in_rate, in_channels, resampled, target_rate,
       resampler_ran, encoded_frames, mux_i, output, enc_result, enc_err, ogg_data>>

\* Encoder::new or set_bitrate fails
EncoderInitErr ==
  /\ enc_pc = "resampled"
  /\ samples_i16' = QuantizeAll(resampled)
  /\ \E msg \in {"Failed to create Opus encoder", "Failed to set bitrate"} :
       Returns(Propagate(msg, output))
  /\ enc_pc' = "returned"
  /\ UNCHANGED <<in_samples, in_rate, in_channels, resampled, target_rate,
       resampler_ran, rest, encoded_frames, mux_i, output>>

\* one iteration of for chunk in samples_i16.chunks(..): pad, encode, push
EncodeFrame ==
  /\ enc_pc = "encoding"
  /\ ChunksHasNext(rest, FrameLen(target_rate, in_channels))
  /\ LET n == FrameLen(target_rate, in_channels)
         frame_to_encode == PadFrame(ChunkHead(rest, n), n)
     IN  /\ encoded_frames' = Append(encoded_frames, OpusEncode(frame_to_encode))
         /\ rest' = ChunkTail(rest, n)
  /\ UNCHANGED <<enc_pc, in_samples, in_rate, in_channels, resampled, target_rate,
       resampler_ran, samples_i16, mux_i, output, enc_result, enc_err, ogg_data>>

\* encoder.encode fails for the next frame
EncodeFrameErr ==
  /\ enc_pc = "encoding"
  /\ ChunksHasNext(rest, FrameLen(target_rate, in_channels))
  /\ Returns(Propagate("Opus encoding failed", output))
  /\ enc_pc' = "returned"
  /\ UNCHANGED <<in_samples, in_rate, in_channels, resampled, target_rate,
       resampler_ran, samples_i16, rest, encoded_frames, mux_i, output>>

\* the loop ends; wrap_in_ogg is called
EncodeLoopEnd ==
  /\ enc_pc = "encoding"
  /\ ~ChunksHasNext(rest, FrameLen(target_rate, in_channels))
  /\ enc_pc' = "mux_id"
  /\ UNCHANGED <<in_samples, in_rate, in_channels, resampled, target_rate,
       resampler_ran, samples_i16, rest, encoded_frames, mux_i, output, enc_result, enc_err, ogg_data>>

(***************************************************************************)
(* wrap_in_ogg                                                             *)
(***************************************************************************)
\* the stream serial of every packet
Serial == 0

WriteIdHeader ==
  /\ enc_pc = "mux_id"
  /\ output' = Append(output,
       Packet(IdHeader(target_rate, in_channels), Serial, "EndPage", 0))
  /\ enc_pc' = "mux_comment"
  /\ UNCHANGED <<in_samples, in_rate, in_channels, resampled, target_rate,
       resampler_ran, samples_i16, rest, encoded_frames, mux_i, enc_result, enc_err, ogg_data>>

\* the comment packet left out when there is no frame to follow it
WriteCommentHeader_OnlyWithFrames ==
  /\ enc_pc = "mux_comment"
  /\ output' = IF encoded_frames = <<>>
                  THEN output
                  ELSE Append(output, Packet(CommentHeader, Serial, "EndPage", 0))
  /\ mux_i' = 0
  /\ enc_pc' = "mux_frames"
  /\ UNCHANGED <<in_samples, in_rate, in_channels, resampled, target_rate,
       resampler_ran, samples_i16, rest, encoded_frames, enc_result, enc_err, ogg_data>>

\* OpusTags, vendor string, no user comments: written as a page of its own
WriteCommentHeader ==
  /\ enc_pc = "mux_comment"
  /\ output' = Append(output, Packet(CommentHeader, Serial, "EndPage", 0))
  /\ mux_i' = 0
  /\ enc_pc' = "mux_frames"
  /\ UNCHANGED <<in_samples, in_rate, in_channels, resampled, target_rate,
       resampler_ran, samples_i16, rest, encoded_frames, enc_result, enc_err, ogg_data>>

\* one iteration of for (i, frame) in encoded_frames.iter().enumerate()
WriteFrame ==
  /\ enc_pc = "mux_frames"
  /\ mux_i < Len(encoded_frames)
  /\ LET granule_increment == GranuleIncrement(FrameSize(target_rate), target_rate)
         granule_pos == (mux_i + 1) * granule_increment
     IN  output' = Append(output,
           Packet(FrameOfIteration(encoded_frames, mux_i), Serial,
                  EndInfo(mux_i, Len(encoded_frames)), granule_pos))
  /\ mux_i' = mux_i + 1
  /\ UNCHANGED <<enc_pc, in_samples, in_rate, in_channels, resampled, target_rate,
       resampler_ran, samples_i16, rest, encoded_frames, enc_result, enc_err, ogg_data>>

\* a write_packet call fails: the error is propagated, the bytes are dropped
WritePacketErr ==
  /\ enc_pc \in {"mux_id", "mux_comment"} \/
       (enc_pc = "mux_frames" /\ mux_i < Len(encoded_frames))
  /\ Returns(Propagate(WriteErrMsg(enc_pc), output))
  /\ enc_pc' = "returned"
  /\ UNCHANGED <<in_samples, in_rate, in_channels, resampled, target_rate,
       resampler_ran, samples_i16, rest, encoded_frames, mux_i, output>>

\* the loop ends: wrap_in_ogg returns Ok(output), encode_to_opus Ok(ogg_data)
MuxReturn ==
  /\ enc_pc = "mux_frames"
  /\ mux_i = Len(encoded_frames)
  /\ Returns([result |-> "Ok", err |-> None, data |-> <<output>>])
  /\ enc_pc' = "returned"
  /\ UNCHANGED <<in_samples, in_rate, in_channels, resampled, target_rate,
       resampler_ran, samples_i16, rest, encoded_frames, mux_i, output>>

NextEncSteps ==
  \/ ResampleIdentity
  \/ ResampleRun
  \/ ResampleErr
  \/ EncoderInit
  \/ EncoderInitErr
  \/ EncodeFrame
  \/ EncodeFrameErr
  \/ EncodeLoopEnd
  \/ WriteIdHeader
  \/ WriteCommentHeader
  \/ WriteFrame
  \/ WritePacketErr
  \/ MuxReturn

NextEnc == NextEncSteps /\ UNCHANGED <<rec_vars, wav_vars, app_vars, ext_vars>>

SpecEnc == InitEnc /\ [][NextEnc]_vars

(***************************************************************************)
(* Claims about the capture session (Spec)                                 *)
(***************************************************************************)
StopOk(i) == call[i] = "stop_ok"

\* C1: once stop() has returned, the worker thread has terminated, the device
\* stream is gone and no callback is running; the returned buffer equals the
\* shared buffer from then on (nothing is appended after the return), and it
\* comes with the rate and channel count of the config read by start().
C1_StopReturnsFinalBuffer ==
  \A i \in Calls :
    StopOk(i) =>
      /\ WorkerExited(i)
      /\ ~StreamAlive(i)
      /\ cb[i] = "idle"
      /\ stop_ret[i] = <<Buffer(i), cfg[i].rate, cfg[i].ch>>

\* C1 witness: a stop() that returned a buffer holding delivered blocks
C1_Witness ==
  \E i \in Calls :
    /\ StopOk(i)
    /\ worker[i] = "exited"
    /\ Len(stop_ret[i][1]) = MaxBlocks * cfg[i].ch * BlockFrames

\* C2: start() returns Ok only when the device stream has been opened: no call
\* whose worker failed to open the device (no device in the worker, unsupported
\* sample format, stream build or play failure) has returned Ok.
C2_StartErrWhenDeviceNotOpened ==
  \A i \in Calls : worker[i] \in SetupFailed => ~StartOk(i)

\* C3: whenever the worker thread of a live handle has exited, is_recording()
\* returns false.
C3_IsRecordingFalseAfterWorkerExit ==
  \A i \in Calls : (HandleLive(i) /\ WorkerExited(i)) => is_recording_call(i) = FALSE

\* C4: after a failed capture setup in the worker, start() and the following
\* stop() do not both return Ok.
C4_SetupFailureReported ==
  \A i \in Calls : worker[i] \in SetupFailed => ~(StartOk(i) /\ StopOk(i))

(***************************************************************************)
(* Claims about the encoder (SpecEnc)                                      *)
(***************************************************************************)
CeilDiv(a, b) == (a + b - 1) \div b

RateSelected == enc_pc \in {"resampled", "encoding", "mux_id", "mux_comment", "mux_frames"}
  \/ enc_result = "Ok"

FramingDone == enc_pc \in {"mux_id", "mux_comment", "mux_frames"} \/ enc_result = "Ok"

\* the values of the k-th consecutive slice of n values of s, zeros after its end
SliceOf(s, k, n) ==
  [p \in 1..n |-> IF (k - 1) * n + p <= Len(s) THEN s[(k - 1) * n + p] ELSE 0]

\* C5: the selected target rate follows the step function of the native rate,
\* is one of the five codec rates, and for a native rate up to 48000 is the
\* smallest codec rate that is not below it.
C5_TargetRateStep ==
  RateSelected =>
    /\ (in_rate <= 8000 => target_rate = 8000)
    /\ (in_rate > 8000 /\ in_rate <= 12000 => target_rate = 12000)
    /\ (in_rate > 12000 /\ in_rate <= 16000 => target_rate = 16000)
    /\ (in_rate > 16000 /\ in_rate <= 24000 => target_rate = 24000)
    /\ (in_rate > 24000 => target_rate = 48000)
    /\ target_rate \in OpusRates
    /\ (in_rate <= 48000 =>
          /\ target_rate >= in_rate
          /\ \A m \in OpusRates : m >= in_rate => m >= target_rate)

\* C5 witness: a native rate on a tier boundary keeps its tier
C5_Witness == enc_pc = "resampled" /\ in_rate = 12000 /\ target_rate = 12000

\* C6: when the native rate is one of the five codec rates, resample_for_opus
\* returns its input unchanged, at that rate, and no resampler is constructed.
C6_IdentityPassThrough ==
  (enc_pc # "called" /\ in_rate \in OpusRates) =>
    /\ target_rate = in_rate
    /\ resampled = in_samples
    /\ ~resampler_ran

\* C6 witness: a non-empty stereo buffer at a codec rate has passed through
C6_Witness ==
  /\ enc_pc = "resampled"
  /\ in_rate = 16000
  /\ in_channels = 2
  /\ Len(in_samples) > 0
  /\ resampled = in_samples

\* C7: the number of encoded frames is ceil(total_samples / (frame_samples *
\* channels)) with frame_samples = target_rate / 50; none for an empty buffer.
C7_FrameCount ==
  FramingDone =>
    /\ Len(encoded_frames) =
         CeilDiv(Len(resampled), (target_rate \div 50) * in_channels)
    /\ (resampled = <<>> => encoded_frames = <<>>)

\* C7 witness: a buffer that is not a whole number of frames gave two frames
C7_Witness ==
  /\ enc_result = "Ok"
  /\ Len(resampled) % ((target_rate \div 50) * in_channels) # 0
  /\ Len(encoded_frames) = 2

\* C8: every frame handed to the codec has exactly frame_samples * channels
\* values: the values of its slice of the quantised stream, then zeros; when
\* the framing is over every value of the stream is in some frame.
C8_FramesFullLength ==
  LET n == (target_rate \div 50) * in_channels
  IN  /\ \A k \in 1..Len(encoded_frames) :
           /\ Len(encoded_frames[k].pcm) = n
           /\ encoded_frames[k].pcm = SliceOf(samples_i16, k, n)
      /\ (FramingDone => Len(encoded_frames) * n >= Len(samples_i16))

\* C8 witness: a short final slice was padded and handed to the codec
C8_Witness ==
  LET n == (target_rate \div 50) * in_channels
  IN  /\ enc_pc = "encoding"
      /\ rest = <<>>
      /\ Len(encoded_frames) = 2
      /\ Len(samples_i16) = n + 1
      /\ encoded_frames[2].pcm[1] # 0
      /\ encoded_frames[2].pcm[n] = 0

\* C9: the container holds 2 + N packets for N encoded frames: the
\* identification packet, the comment packet, then the N frame packets, all
\* with one serial; the k-th frame packet carries the encoding of the k-th
\* consecutive slice of the quantised stream, and the N slices cover it.
C9_PacketOrder ==
  enc_result = "Ok" =>
    LET n == (target_rate \div 50) * in_channels
        N == Len(encoded_frames)
    IN  /\ Len(output) = 2 + N
        /\ output[1].payload = IdHeader(target_rate, in_channels)
        /\ output[2].payload = CommentHeader
        /\ \A k \in 1..Len(output) : output[k].serial = output[1].serial
        /\ \A k \in 1..N :
             output[2 + k].payload = OpusEncode(SliceOf(samples_i16, k, n))
        /\ N = CeilDiv(Len(samples_i16), n)

\* C9 witness: a container with two different frame packets
C9_Witness ==
  /\ enc_result = "Ok"
  /\ Len(output) = 4
  /\ output[3].payload # output[4].payload

\* C10: both metadata packets are marked end-of-page; of the frame packets
\* written so far only the packet of the last encoded frame is marked
\* end-of-stream and the others are ordinary packets; with no frame there is
\* no end-of-stream packet.
C10_EndMarkers ==
  (enc_pc = "mux_frames" \/ enc_result = "Ok") =>
    /\ output[1].end_info = "EndPage"
    /\ output[2].end_info = "EndPage"
    /\ \A k \in 3..Len(output) :
         output[k].end_info =
           IF k = 2 + Len(encoded_frames) THEN "EndStream" ELSE "NormalPacket"
    /\ (enc_result = "Ok" /\ Len(encoded_frames) > 0 =>
          output[Len(output)].end_info = "EndStream")
    /\ (encoded_frames = <<>> =>
          \A k \in 1..Len(output) : output[k].end_info # "EndStream")

\* C10 witness: a container whose last of two frame packets ends the stream
C10_Witness ==
  /\ enc_result = "Ok"
  /\ Len(output) = 4
  /\ output[3].end_info = "NormalPacket"
  /\ output[4].end_info = "EndStream"

\* C11: the cumulative position of the i-th frame packet is i times
\* frame_samples * 48000 / target_rate (integer division); that increment is
\* 960 for each of the five target rates, the integer division loses nothing,
\* the positions strictly increase over the frame packets, and both metadata
\* packets carry position 0.
C11_GranulePositions ==
  (enc_pc = "mux_frames" \/ enc_result = "Ok") =>
    LET frame_samples == target_rate \div 50
    IN  /\ output[1].granule = 0
        /\ output[2].granule = 0
        /\ (frame_samples * 48000) % target_rate = 0
        /\ \A k \in 3..Len(output) :
             /\ output[k].granule = (k - 2) * ((frame_samples * 48000) \div target_rate)
             /\ output[k].granule = (k - 2) * 960
             /\ (k > 3 => output[k].granule > output[k - 1].granule)

\* C11 witness: two frame packets written at a target rate other than 48000
C11_Witness ==
  /\ enc_result = "Ok"
  /\ target_rate = 8000
  /\ Len(output) = 4
  /\ output[3].granule = 960
  /\ output[4].granule = 1920

\* C12: encode_to_opus returns either Ok with the complete container (both
\* metadata packets and a packet for every frame of the rate-adapted buffer)
\* or Err with a message and no bytes; an error of any step ends the call.
C12_AllOrNothing ==
  /\ (enc_err # None => enc_pc = "returned" /\ enc_result = "Err")
  /\ (enc_pc = "returned" =>
        \/ /\ enc_result = "Err"
           /\ enc_err # None
           /\ ogg_data = <<>>
        \/ /\ enc_result = "Ok"
           /\ enc_err = None
           /\ Len(ogg_data) = 1
           /\ target_rate \in OpusRates
           /\ LET n == (target_rate \div 50) * in_channels
                  N == CeilDiv(Len(resampled), n)
                  data == ogg_data[1]
              IN  /\ Len(data) = 2 + N
                  /\ data[1].payload = IdHeader(target_rate, in_channels)
                  /\ data[2].payload = CommentHeader
                  /\ \A k \in 1..N :
                       data[2 + k].payload = OpusEncode(SliceOf(samples_i16, k, n)))

\* C12 witness: the write of the second frame packet failed after three
\* packets had been written, and nothing was returned
C12_Witness ==
  /\ enc_pc = "returned"
  /\ enc_result = "Err"
  /\ enc_err = "Failed to write Opus frame"
  /\ Len(output) = 3
  /\ ogg_data = <<>>

(***************************************************************************)
(* encode_to_wav                                                           *)
(***************************************************************************)
\* samples in one buffer given to both encoders
MaxWavLen == 2

\* sample values tried: zero, one quantisation step and its neighbours, a
\* half, the ends of [-1, 1] and their neighbours, values outside [-1, 1]
QSamples ==
  {0, 1, -1, I16Div - 1, I16Div, I16Div + 1, 0 - I16Div, 3 * I16Div + 7,
   SampleDen \div 2, SampleDen - 1, SampleDen, SampleDen + 1, 0 - SampleDen,
   SampleDen + SampleDen \div 2, 0 - (SampleDen + SampleDen \div 2)}

Buffers(len) == UNION {[1..l -> QSamples] : l \in 0..len}

\* the quantiser with a scale of 32768
WavQuantize_Scale32768(s) ==
  TruncDiv(Clamp(s, 0 - SampleDen, SampleDen), SampleDen \div I16Div)

\* encode_to_wav: (sample.clamp(-1.0, 1.0) * 32767.0) as i16
WavQuantize(s) == TruncDiv(Clamp(s, 0 - SampleDen, SampleDen), SampleDen \div I16Scale)

\* a header with a fixed rate in place of the native one
WavSpecOf_FixedRate(rate, ch) ==
  [channels |-> ch, sample_rate |-> 44100, bits_per_sample |-> 16, sample_format |-> "Int"]

\* hound::WavSpec { channels, sample_rate, bits_per_sample: 16, Int }
WavSpecOf(rate, ch) ==
  [channels |-> ch, sample_rate |-> rate, bits_per_sample |-> 16, sample_format |-> "Int"]

\* encode_to_wav and encode_to_opus are called with the same arguments, at a
\* rate the lossy path does not resample
InitWav ==
  /\ RecIdle
  /\ AppIdle
  /\ ExtIdle
  /\ enc_pc = "called"
  /\ in_rate \in {8000, 48000}
  /\ in_channels \in ChannelCounts
  /\ in_samples \in Buffers(MaxWavLen)
  /\ resampled = <<>>
  /\ target_rate = 0
  /\ resampler_ran = FALSE
  /\ samples_i16 = <<>>
  /\ rest = <<>>
  /\ encoded_frames = <<>>
  /\ mux_i = 0
  /\ output = <<>>
  /\ enc_result = None
  /\ enc_err = None
  /\ ogg_data = <<>>
  /\ wav_pc = "called"
  /\ wav_file = NoWavFile
  /\ wav_ret = NoReturn

\* hound::WavWriter::new succeeds
WavCreate ==
  /\ wav_pc = "called"
  /\ wav_file' = [spec |-> WavSpecOf(in_rate, in_channels), data |-> <<>>]
  /\ wav_pc' = "writing"
  /\ UNCHANGED wav_ret

\* one iteration of for &sample in samples: quantise and write_sample
WavWriteSample ==
  /\ wav_pc = "writing"
  /\ Len(wav_file.data) < Len(in_samples)
  /\ wav_file' = [wav_file EXCEPT
       !.data = Append(@, WavQuantize(in_samples[Len(wav_file.data) + 1]))]
  /\ UNCHANGED <<wav_pc, wav_ret>>

\* writer.finalize() succeeds: Ok(cursor.into_inner())
WavFinalize ==
  /\ wav_pc = "writing"
  /\ Len(wav_file.data) = Len(in_samples)
  /\ wav_ret' = [result |-> "Ok", err |-> None, data |-> <<wav_file>>]
  /\ wav_pc' = "returned"
  /\ UNCHANGED wav_file

\* WavWriter::new, write_sample or finalize fails
WavErr ==
  /\ \/ wav_pc = "called" /\ wav_ret' = Propagate("Failed to create WAV writer", wav_file)
     \/ /\ wav_pc = "writing"
        /\ Len(wav_file.data) < Len(in_samples)
        /\ wav_ret' = Propagate("Failed to write sample", wav_file)
     \/ /\ wav_pc = "writing"
        /\ Len(wav_file.data) = Len(in_samples)
        /\ wav_ret' = Propagate("Failed to finalize WAV", wav_file)
  /\ wav_pc' = "returned"
  /\ UNCHANGED wav_file

NextWavSteps ==
  \/ WavCreate
  \/ WavWriteSample
  \/ WavFinalize
  \/ WavErr

\* both encoders on the same buffer: the lossless one, and the lossy one up
\* to its quantised stream
NextWav ==
  \/ NextWavSteps /\ UNCHANGED <<rec_vars, enc_vars, app_vars, ext_vars>>
  \/ (ResampleIdentity \/ EncoderInit) /\ UNCHANGED <<rec_vars, wav_vars, app_vars, ext_vars>>

SpecWav == InitWav /\ [][NextWav]_vars

(***************************************************************************)
(* Claims about the quantiser (SpecWav)                                    *)
(***************************************************************************)
Abs(x) == IF x < 0 THEN 0 - x ELSE x

\* the sample value of a 16-bit value q read back: q / 32767
Dequantize(q) == q * (SampleDen \div I16Scale)

InRange(s) == s >= 0 - SampleDen /\ s <= SampleDen

\* C13: the lossy and the lossless path give the same 16-bit value for the
\* same sample: the value of clamp(s, -1, 1) * 32767 truncated toward zero,
\* which lies in [-32767, 32767].
C13_SameQuantisation ==
  /\ \A p \in 1..Len(samples_i16) :
       /\ samples_i16[p] >= -32767 /\ samples_i16[p] <= 32767
       /\ Abs(samples_i16[p]) * I16Div <= Abs(Clamp(resampled[p], 0 - SampleDen, SampleDen))
       /\ (Abs(samples_i16[p]) + 1) * I16Div > Abs(Clamp(resampled[p], 0 - SampleDen, SampleDen))
       /\ (resampled[p] >= 0 => samples_i16[p] >= 0)
       /\ (resampled[p] <= 0 => samples_i16[p] <= 0)
  /\ \A p \in 1..Len(wav_file.data) :
       /\ wav_file.data[p] >= -32767 /\ wav_file.data[p] <= 32767
       /\ (p <= Len(samples_i16) => wav_file.data[p] = samples_i16[p])

\* C13 witness: both paths have quantised a buffer with a sample above 1 and
\* a sample strictly between two steps
C13_Witness ==
  /\ Len(samples_i16) = 2
  /\ Len(wav_file.data) = 2
  /\ in_samples[1] > SampleDen
  /\ in_samples[2] = 3 * I16Div + 7
  /\ wav_file.data = <<32767, 3>>

\* the file encode_to_wav returned holds one 16-bit value per input sample at
\* the native rate and channel count, and a sample outside [-1, 1] is stored
\* as the nearer end of the 16-bit range
WavFileShape(f) ==
  /\ Len(f.data) = Len(in_samples)
  /\ f.spec.sample_rate = in_rate
  /\ f.spec.channels = in_channels
  /\ f.spec.bits_per_sample = 16
  /\ \A p \in 1..Len(f.data) :
       /\ (in_samples[p] > SampleDen => f.data[p] = 32767)
       /\ (in_samples[p] < 0 - SampleDen => f.data[p] = -32767)

\* C17 (as stated): every sample read back as q / 32767 is within 1 / 32767
\* of the original sample.
C17_RoundTripEverySample ==
  wav_ret.result = "Ok" =>
    LET f == wav_ret.data[1]
    IN  /\ WavFileShape(f)
        /\ \A p \in 1..Len(f.data) :
             Abs(Dequantize(f.data[p]) - in_samples[p]) <= SampleDen \div I16Scale

\* C17 (amended): every sample that lies in [-1, 1] is read back as q / 32767
\* within 1 / 32767 of the original; the file holds one 16-bit value per
\* input sample, in input order, at the native rate and channel count.
C17_RoundTripInRange ==
  wav_ret.result = "Ok" =>
    LET f == wav_ret.data[1]
    IN  /\ WavFileShape(f)
        /\ \A p \in 1..Len(f.data) :
             InRange(in_samples[p]) =>
               Abs(Dequantize(f.data[p]) - in_samples[p]) <= SampleDen \div I16Scale

\* C17 witness: a file of two samples inside [-1, 1], one between two steps
C17_Witness ==
  /\ wav_ret.result = "Ok"
  /\ in_samples = <<3 * I16Div + 7, 0 - SampleDen>>
  /\ wav_ret.data[1].data = <<3, -32767>>

\* C18: a 16-bit value produced by either quantiser, read back as q / 32767
\* and quantised again, is the same 16-bit value.
C18_QuantiseIdempotent ==
  /\ \A p \in 1..Len(samples_i16) :
       Quantize(Dequantize(samples_i16[p])) = samples_i16[p]
  /\ \A p \in 1..Len(wav_file.data) :
       WavQuantize(Dequantize(wav_file.data[p])) = wav_file.data[p]

\* C18 witness: both quantisers have produced the largest and a small value
C18_Witness ==
  /\ in_samples = <<SampleDen - 1, 0 - I16Div>>
  /\ samples_i16 = <<32766, -1>>
  /\ wav_file.data = <<32766, -1>>

(***************************************************************************)
(* Scenarios                                                               *)
(***************************************************************************)
\* scenario B: native rate 8000 Hz, two channels, an empty buffer
ScenarioB == in_rate = 8000 /\ in_channels = 2 /\ in_samples = <<>>

\* the failures of steps that run once per frame or only for a foreign rate
InputDependentErrors ==
  {"Failed to create resampler", "Failed to resample audio",
   "Opus encoding failed", "Failed to write Opus frame"}

\* C14: for 8000 Hz, two channels and an empty buffer, encode_to_opus keeps
\* the rate and runs no resampler, frames nothing, never reaches an iteration
\* of the encode or the mux loop (so the last-frame test is never evaluated),
\* fails in no step that depends on the input, and its Ok value holds exactly
\* the identification packet and the comment packet.
C14_EmptyInputTwoPackets ==
  ScenarioB =>
    /\ ~resampler_ran
    /\ enc_pc # "called" /\ enc_result # "Err" => target_rate = 8000
    /\ encoded_frames = <<>>
    /\ ~(enc_pc = "encoding" /\ ChunksHasNext(rest, FrameLen(target_rate, in_channels)))
    /\ ~(enc_pc = "mux_frames" /\ mux_i < Len(encoded_frames))
    /\ enc_err \notin InputDependentErrors
    /\ enc_pc = "returned" /\ enc_result = "Ok" =>
         ogg_data = << <<Packet(IdHeader(8000, 2), Serial, "EndPage", 0),
                         Packet(CommentHeader, Serial, "EndPage", 0)>> >>

\* C14 witness: the call of scenario B has returned Ok
C14_Witness ==
  /\ ScenarioB
  /\ enc_pc = "returned"
  /\ enc_result = "Ok"
  /\ Len(ogg_data[1]) = 2

\* C16: when the host reports no default input device, start() returns its
\* error before anything of the session is created: after the failed call
\* there is no worker thread, no shared buffer, no command channel, no
\* stream and no raised recording flag of that call, and none appears later.
C16_NoDeviceNothingCreated ==
  \A i \in Calls :
    call[i] = "err_no_device" =>
      /\ worker[i] = None
      /\ ~tx_alive[i]
      /\ command_q[i] = 0
      /\ stream[i] = None
      /\ ~is_recording[i]
      /\ samples[i] = NoBuffer
      /\ stop_ret[i] = NotReturned

\* C16 witness: a first session was recorded and stopped, then the device
\* was gone and the second start() failed
C16_Witness ==
  /\ call[1] = "stop_ok"
  /\ worker[1] = "exited"
  /\ call[2] = "err_no_device"
  /\ worker[2] = None

(***************************************************************************)
(* Application commands: start_audio_recording, stop_audio_recording,      *)
(* is_audio_recording                                                      *)
(***************************************************************************)
\* start_audio_recording: AudioRecorderHandle::start() runs first, without
\* the lock; a failed start() returns its error to the caller
CmdStartErr(i) ==
  /\ StartNoDevice(i) \/ StartConfigErr(i)
  /\ UNCHANGED <<enc_vars, wav_vars, app_vars, ext_vars>>

\* start_audio_recording: start() succeeded and the command holds the handle
CmdStart(i) ==
  /\ StartSpawn(i)
  /\ starting' = starting \cup {i}
  /\ UNCHANGED <<AUDIO_RECORDER, guard>>
  /\ UNCHANGED <<enc_vars, wav_vars, ext_vars>>

\* start_audio_recording: lock, *guard = Some(recorder), unlock. The handle
\* the slot held before is dropped by the assignment.
CmdStartStore(i) ==
  /\ i \in starting
  /\ guard = 0
  /\ IF AUDIO_RECORDER # 0
       THEN DropHandle(AUDIO_RECORDER)
       ELSE UNCHANGED rec_vars
  /\ AUDIO_RECORDER' = i
  /\ starting' = starting \ {i}
  /\ UNCHANGED guard
  /\ UNCHANGED <<enc_vars, wav_vars, ext_vars>>

\* stop_audio_recording with an empty slot: lock, take() is None, Err
CmdStopNone ==
  /\ guard = 0
  /\ AUDIO_RECORDER = 0
  /\ UNCHANGED <<rec_vars, enc_vars, wav_vars, app_vars, ext_vars>>

\* stop_audio_recording: lock, take() the handle, and recorder.stop() sends
\* Stop; the guard stays alive until the command returns
CmdStopTake(i) ==
  /\ guard = 0
  /\ AUDIO_RECORDER = i
  /\ StopSend(i)
  /\ guard' = i
  /\ AUDIO_RECORDER' = 0
  /\ UNCHANGED starting
  /\ UNCHANGED <<enc_vars, wav_vars, ext_vars>>

\* recorder.stop() joins the worker and returns, inside the command
CmdStopJoin(i) ==
  /\ guard = i
  /\ StopJoin(i) \/ StopReturn(i)
  /\ UNCHANGED <<enc_vars, wav_vars, app_vars, ext_vars>>

\* an encode step entered as soon as Stop was sent, on the live buffer
CmdEncodeCall_BeforeJoin(i) ==
  /\ guard = i
  /\ call[i] \in {"stop_sent", "stop_ok"}
  /\ wav_pc = "idle"
  /\ in_samples' = Buffer(i)
  /\ in_rate' = sample_rate[i]
  /\ in_channels' = channels[i]
  /\ wav_pc' = "called"
  /\ UNCHANGED <<enc_pc, resampled, target_rate, resampler_ran, samples_i16, rest,
       encoded_frames, mux_i, output, enc_result, enc_err, ogg_data>>
  /\ UNCHANGED <<wav_file, wav_ret>>
  /\ UNCHANGED <<rec_vars, app_vars, ext_vars>>

\* audio::encode_to_wav(&samples, sample_rate, channels) is called with what
\* stop() returned
CmdEncodeCall(i) ==
  /\ guard = i
  /\ call[i] = "stop_ok"
  /\ wav_pc = "idle"
  /\ in_samples' = stop_ret[i][1]
  /\ in_rate' = stop_ret[i][2]
  /\ in_channels' = stop_ret[i][3]
  /\ wav_pc' = "called"
  /\ UNCHANGED <<enc_pc, resampled, target_rate, resampler_ran, samples_i16, rest,
       encoded_frames, mux_i, output, enc_result, enc_err, ogg_data>>
  /\ UNCHANGED <<wav_file, wav_ret>>
  /\ UNCHANGED <<rec_vars, app_vars, ext_vars>>

\* the steps of encode_to_wav, inside the command
CmdEncodeStep ==
  /\ guard # 0
  /\ NextWavSteps
  /\ UNCHANGED <<rec_vars, enc_vars, app_vars, ext_vars>>

\* stop_audio_recording returns the base64 text or the encoder's error; its
\* locals and the guard are dropped
CmdStopReturn ==
  /\ guard # 0
  /\ wav_pc = "returned"
  /\ guard' = 0
  /\ wav_pc' = "idle"
  /\ wav_file' = NoWavFile
  /\ wav_ret' = NoReturn
  /\ in_samples' = <<>>
  /\ in_rate' = 0
  /\ in_channels' = 0
  /\ UNCHANGED <<enc_pc, resampled, target_rate, resampler_ran, samples_i16, rest,
       encoded_frames, mux_i, output, enc_result, enc_err, ogg_data>>
  /\ UNCHANGED <<AUDIO_RECORDER, starting>>
  /\ UNCHANGED <<rec_vars, ext_vars>>

\* what is_audio_recording returns:
\* guard.as_ref().map(|r| r.is_recording()).unwrap_or(false)
IsAudioRecordingValue == AUDIO_RECORDER # 0 /\ is_recording_call(AUDIO_RECORDER)

\* is_audio_recording: lock, read the flag of the stored handle, unlock; the
\* value goes to the caller and nothing is changed
CmdIsRecording ==
  /\ guard = 0
  /\ IsAudioRecordingValue \in BOOLEAN
  /\ UNCHANGED <<rec_vars, enc_vars, wav_vars, app_vars, ext_vars>>

RECURSIVE SumTo(_, _)
SumTo(f, n) == IF n = 0 THEN 0 ELSE f[n] + SumTo(f, n - 1)

\* the one input device delivers at most MaxBlocks blocks in all, to
\* whichever streams are open
DeviceHasBlock == SumTo(delivered, MaxCalls) < MaxBlocks

\* the worker threads and the capture callbacks of all sessions
WorkerStep(i) ==
  /\ \/ WorkerDevice(i)
     \/ WorkerBuild(i)
     \/ WorkerPlay(i)
     \/ WorkerPlayErr(i)
     \/ WorkerRecvStop(i)
     \/ WorkerRecvClosed(i)
     \/ WorkerStoreFlag(i)
     \/ WorkerExit(i)
     \/ DeviceHasBlock /\ CallbackLoad(i)
     \/ CallbackAppend(i)
  /\ UNCHANGED <<enc_vars, wav_vars, app_vars, ext_vars>>

NextApp ==
  \/ \E i \in Calls :
       \/ CmdStartErr(i)
       \/ CmdStart(i)
       \/ CmdStartStore(i)
       \/ CmdStopTake(i)
       \/ CmdStopJoin(i)
       \/ CmdEncodeCall(i)
       \/ WorkerStep(i)
  \/ CmdStopNone
  \/ CmdEncodeStep
  \/ CmdStopReturn
  \/ CmdIsRecording

\* the application on a machine whose device delivers 32-bit float mono
InitApp ==
  /\ Init
  /\ dev_cfg.fmt = "F32"

SpecApp == InitApp /\ [][NextApp]_vars

\* the sessions whose worker thread is alive
LiveWorkers == {i \in Calls : WorkerAlive(i)}

\* C19: across any interleaving of the three commands, at most one capture
\* worker thread is alive.
C19_AtMostOneWorker == Cardinality(LiveWorkers) <= 1

\* an encode stage is reading the samples of session i
Encoding(i) == guard = i /\ wav_pc \in {"called", "writing"}

\* C20: while stop_audio_recording encodes the samples of a session, stop()
\* of that session has returned: its worker thread has terminated, its
\* stream is gone, no callback of it is running, and the buffer being encoded
\* is the one stop() returned.
C20_EncodeAfterStop ==
  \A i \in Calls :
    Encoding(i) =>
      /\ call[i] = "stop_ok"
      /\ WorkerExited(i)
      /\ ~StreamAlive(i)
      /\ cb[i] = "idle"
      /\ in_samples = Buffer(i)

\* C20 witness: the samples of session 1 are being written to the WAV file
\* while the worker of a second session is alive
C20_Witness ==
  /\ Encoding(1)
  /\ Len(in_samples) > 0
  /\ Len(wav_file.data) > 0
  /\ WorkerAlive(2)

\* a stop command is blocked in handle.join(): Stop was sent and the worker
\* of the session has not terminated
StopJoining(i) == guard = i /\ call[i] = "stop_sent" /\ WorkerAlive(i)

\* C21: the liveness query of the application completes without waiting:
\* while a stop command is blocked joining the worker, is_audio_recording
\* can still take its step.
C21_QueryNeverWaits ==
  \A i \in Calls : StopJoining(i) => ENABLED CmdIsRecording

\* the converted blocks numbered in S, of the first k the device delivered,
\* one after another in delivery order
RECURSIVE BlocksInOrder(_, _, _)
BlocksInOrder(c, S, k) ==
  IF k = 0
    THEN <<>>
    ELSE BlocksInOrder(c, S, k - 1) \o
           (IF k \in S THEN ConvertBlock(c.fmt, RawBlock(c, k)) ELSE <<>>)

\* the blocks of session i whose callback has returned
BlocksHandled(i) == IF cb[i] = "flag_true" THEN delivered[i] - 1 ELSE delivered[i]

\* C22: the shared buffer of a session is at all times the concatenation, in
\* delivery order, of the blocks accepted so far, each block whole and once:
\* the blocks 1..m for some m among the blocks whose callback has returned
\* (a block is accepted while the flag is true, and the flag never returns to
\* true); stop() and is_recording() beside the callback change nothing of it.
C22_BufferIsBlocksInOrder ==
  \A i \in Calls :
    StartOk(i) =>
      LET n == cfg[i].ch * BlockFrames
          m == Len(Buffer(i)) \div n
      IN  /\ m <= BlocksHandled(i)
          /\ Len(Buffer(i)) = m * n
          /\ \A p \in 1..Len(Buffer(i)) :
               Buffer(i)[p] =
                 ToF32(cfg[i].fmt,
                       RawSample(cfg[i].fmt, ((p - 1) \div n) + 1, ((p - 1) % n) + 1))

\* C22 witness: two blocks were appended and stop() is waiting for the worker
C22_Witness ==
  /\ call[1] = "stop_sent"
  /\ WorkerAlive(1)
  /\ delivered[1] = 2
  /\ Len(Buffer(1)) = 2 * cfg[1].ch * BlockFrames
  /\ Buffer(1) = BlocksInOrder(cfg[1], {1, 2}, 2)

(***************************************************************************)
(* A session whose buffer lock gets poisoned                               *)
(***************************************************************************)
\* extend_from_slice panics (capacity overflow) while the callback holds the
\* lock: the buffer is as before, the guard is dropped by the unwinding and
\* the Mutex is poisoned
CallbackPanic(i) ==
  /\ cb[i] = "flag_true"
  /\ ~poisoned[i]
  /\ poisoned' = [poisoned EXCEPT ![i] = TRUE]
  /\ cb' = [cb EXCEPT ![i] = "idle"]
  /\ UNCHANGED <<dev_cfg, call, cfg, sample_rate, channels, samples, is_recording,
       command_q, tx_alive, worker, stream, delivered, stop_ret>>

\* err_fn: the device reports a stream error, which is printed
StreamError(i) ==
  /\ StreamAlive(i)
  /\ UNCHANGED rec_vars

\* sessions that are started on a present device and stopped by their
\* owner, one after another; the Sender lives until stop() has joined the
\* worker, so recv() never finds the channel closed
NextPoisonRec ==
  \E i \in Calls :
    \/ StartSpawn(i)
    \/ WorkerDevice(i)
    \/ WorkerBuild(i)
    \/ WorkerPlay(i)
    \/ WorkerPlayErr(i)
    \/ WorkerRecvStop(i)
    \/ WorkerStoreFlag(i)
    \/ WorkerExit(i)
    \/ CallbackLoad(i)
    \/ CallbackAppend(i)
    \/ CallbackPanic(i)
    \/ StreamError(i)
    \/ StopSend(i)
    \/ StopJoin(i)
    \/ StopReturn(i)
    \/ StopReturnErr(i)

NextPoison == NextPoisonRec /\ UNCHANGED <<enc_vars, wav_vars, app_vars, ext_vars>>

SpecPoison == Init /\ [][NextPoison]_vars

\* C23: the buffer of a session holds whole frames at all times, and so does
\* the buffer stop() returns: its length is a multiple of the channel count,
\* whether blocks were appended, discarded for a false flag or discarded for
\* a poisoned lock.
C23_WholeFrames ==
  \A i \in Calls :
    StartOk(i) =>
      /\ channels[i] > 0
      /\ Len(Buffer(i)) % channels[i] = 0
      /\ call[i] = "stop_ok" =>
           /\ stop_ret[i][3] = channels[i]
           /\ Len(stop_ret[i][1]) % stop_ret[i][3] = 0

\* C23 witness: a stereo session appended its first block, discarded the
\* second one after the flag was cleared, and stop() returned the two values
C23_Witness ==
  /\ call[1] = "stop_ok"
  /\ channels[1] = 2
  /\ delivered[1] = 2
  /\ Len(stop_ret[1][1]) = 2 * BlockFrames

\* the callback of session i returns from a block it had loaded the flag for
CallbackReturns(i) == cb[i] = "flag_true" /\ cb'[i] = "idle"

\* C24: a callback that finds the buffer lock poisoned discards its block
\* and nothing else: the buffer, the liveness flag, the worker, the stream
\* and the handle are as before, and the callback is ready for the next
\* block; a stream error reported by the device changes nothing at all.
C24_PoisonedLockDiscards ==
  [][\A i \in Calls :
       (poisoned[i] /\ CallbackReturns(i)) =>
         /\ samples'[i] = samples[i]
         /\ is_recording'[i] = is_recording[i]
         /\ worker'[i] = worker[i]
         /\ stream'[i] = stream[i]
         /\ call'[i] = call[i]
         /\ poisoned'[i]]_vars

\* C24 witness: the lock was poisoned during the first block, the second
\* block was delivered to the callback and discarded, the session goes on
C24_Witness ==
  /\ poisoned[1]
  /\ delivered[1] = 2
  /\ cb[1] = "idle"
  /\ Buffer(1) = <<>>
  /\ is_recording[1]
  /\ worker[1] = "waiting"
  /\ stream[1] = "playing"

(***************************************************************************)
(* Progress of a capture session                                           *)
(***************************************************************************)
\* the steps of the worker thread of session i
WorkerThread(i) ==
  /\ \/ WorkerDevice(i)
     \/ WorkerBuild(i)
     \/ WorkerPlay(i)
     \/ WorkerPlayErr(i)
     \/ WorkerRecvStop(i)
     \/ WorkerRecvClosed(i)
     \/ WorkerStoreFlag(i)
     \/ WorkerExit(i)
  /\ UNCHANGED <<enc_vars, wav_vars, app_vars, ext_vars>>

\* a callback that has started runs to its end
CallbackRuns(i) == CallbackAppend(i) /\ UNCHANGED <<enc_vars, wav_vars, app_vars, ext_vars>>

\* the thread inside stop(): the join and the return
StopRuns(i) ==
  /\ StopJoin(i) \/ StopReturn(i)
  /\ UNCHANGED <<enc_vars, wav_vars, app_vars, ext_vars>>

\* what the handle's owner and the device do, when they choose to, for
\* sessions that start() has created; sessions share no state, and the next
\* one is started here once the worker of the one before is gone
OwnerAndDevice(i) ==
  /\ \/ StartSpawn(i) /\ \A j \in Calls : ~WorkerAlive(j)
     \/ DeviceHasBlock /\ CallbackLoad(i)
     \/ StopSend(i)
     \/ DropHandle(i)
  /\ UNCHANGED <<enc_vars, wav_vars, app_vars, ext_vars>>

NextLive ==
  \E i \in Calls :
    \/ OwnerAndDevice(i)
    \/ WorkerThread(i)
    \/ CallbackRuns(i)
    \/ StopRuns(i)

\* every thread that can take a step is scheduled in the end: the worker, a
\* running callback (so tearing down the stream terminates), and the thread
\* inside stop()
Fairness ==
  \A i \in Calls :
    /\ WF_worker(WorkerThread(i))
    /\ WF_cb(CallbackRuns(i))
    /\ WF_call(StopRuns(i))

SpecLive == InitApp /\ [][NextLive]_vars /\ Fairness

\* C25: a stop() that was entered returns in the end, whatever the worker
\* was doing when Stop was sent (setting up, waiting on the channel, or gone
\* after a failed setup); and the worker of a handle that was dropped without
\* stop() terminates in the end.
C25_StopEventuallyReturns ==
  \A i \in Calls :
    /\ (call[i] = "stop_sent") ~> (call[i] = "stop_ok")
    /\ (call[i] = "dropped") ~> WorkerExited(i)

\* C25 witness: the worker of a dropped handle has left its loop and
\* terminated, and the stop() of a session whose setup failed has returned
C25_Witness ==
  /\ call[1] = "dropped"
  /\ worker[1] = "exited"
  /\ call[2] = "stop_ok"
  /\ worker[2] \in SetupFailed


\* ===========================================================================
\* Hotkeys: hotkey/manager.rs (REGISTRY, MANAGER, register, unregister,
\* unregister_all, parse_hotkey) and hotkey/conflict.rs (check_conflict).
\* The global-hotkey crate is outside the repository: a register call fails
\* for a HotKey that is already registered and may fail for any other reason,
\* an unregister call may fail, and unregister_all stops at its first failure.
\* ===========================================================================

\* the ids of HotkeyConfig used as inputs
HotkeyIds == {"h1", "h2"}

\* str::to_lowercase on the strings used as inputs
ToLower(s) ==
  CASE s = "A" -> "a"
    [] s = "ESCAPE" -> "escape"
    [] s = "Control" -> "control"
    [] s = "CTRL" -> "ctrl"
    [] s = "SHIFT" -> "shift"
    [] OTHER -> s

\* str::to_uppercase on the strings used as inputs
ToUpper(s) ==
  CASE s = "a" -> "A"
    [] s = "esc" -> "ESC"
    [] s = "digit1" -> "DIGIT1"
    [] s = "zz" -> "ZZ"
    [] OTHER -> s

\* parse_code: Ok(code) as <<code>>, Err("Unknown key") as <<>>
ParseCode(key) ==
  LET k == ToUpper(key)
  IN CASE k = "A" -> <<"KeyA">>
       [] k \in {"1", "DIGIT1"} -> <<"Digit1">>
       [] k \in {"ESCAPE", "ESC"} -> <<"Escape">>
       [] OTHER -> <<>>

\* one arm of the match in parse_modifiers: the flag a modifier string sets,
\* {} for the empty string, and no flag at all for an unknown modifier
ModifierFlag(m) ==
  LET l == ToLower(m)
  IN CASE l \in {"ctrl", "control"} -> <<{"CONTROL"}>>
       [] l = "alt" -> <<{"ALT"}>>
       [] l = "shift" -> <<{"SHIFT"}>>
       [] l \in {"meta", "super", "win", "cmd", "command"} -> <<{"META"}>>
       [] l = "" -> <<{}>>
       [] OTHER -> <<>>

\* parse_modifiers: Ok(flags) as <<flags>>, Err("Unknown modifier") as <<>>
ParseModifiers(mods) ==
  IF \E p \in 1..Len(mods) : ModifierFlag(mods[p]) = <<>>
  THEN <<>>
  ELSE <<UNION {ModifierFlag(mods[p])[1] : p \in 1..Len(mods)}>>

\* parse_hotkey: Ok(HotKey) as <<hotkey>>, Err as <<>>; HotKey::new(None, code)
\* and HotKey::new(Some(empty), code) are the same HotKey
ParseHotkey(binding) ==
  IF ParseModifiers(binding.modifiers) = <<>> \/ ParseCode(binding.key) = <<>>
  THEN <<>>
  ELSE <<[mods |-> ParseModifiers(binding.modifiers)[1],
          code |-> ParseCode(binding.key)[1]]>>

\* normalize_modifier
NormalizeModifier(m) ==
  LET l == ToLower(m)
  IN CASE l \in {"ctrl", "control"} -> "ctrl"
       [] l = "alt" -> "alt"
       [] l = "shift" -> "shift"
       [] l \in {"meta", "super", "win", "cmd", "command"} -> "meta"
       [] OTHER -> l

\* the normalised, non-empty modifiers of a binding: how often each occurs
\* (two sorted vectors are equal iff every string occurs equally often)
NormalizedMods(binding) ==
  LET n == [p \in 1..Len(binding.modifiers) |-> NormalizeModifier(binding.modifiers[p])]
  IN [m \in {"ctrl", "alt", "shift", "meta", "hyper"} |->
        Cardinality({p \in 1..Len(n) : n[p] = m /\ n[p] # ""})]

\* bindings_match
BindingsMatch(a, b) ==
  /\ ToLower(a.key) = ToLower(b.key)
  /\ NormalizedMods(a) = NormalizedMods(b)

\* check_conflict_excluding: exclude_id is <<>> for None, <<id>> for Some(id)
CheckConflictExcluding(binding, exclude_id) ==
  \E e \in REGISTRY :
    /\ exclude_id # <<e.id>>
    /\ BindingsMatch(e.binding, binding)

\* check_conflict
CheckConflict(binding) == CheckConflictExcluding(binding, <<>>)

\* the HotkeyBinding values used as inputs
Bindings ==
  { [modifiers |-> <<"ctrl">>, key |-> "a"],
    [modifiers |-> <<"Control">>, key |-> "A"],
    [modifiers |-> <<"ctrl", "ctrl">>, key |-> "a"],
    [modifiers |-> <<"ctrl", "shift">>, key |-> "esc"],
    [modifiers |-> <<"SHIFT", "", "CTRL">>, key |-> "ESCAPE"],
    [modifiers |-> <<"cmd">>, key |-> "1"],
    [modifiers |-> <<"win">>, key |-> "digit1"],
    [modifiers |-> <<"hyper">>, key |-> "a"],
    [modifiers |-> <<>>, key |-> "zz"] }

\* what a hotkey action leaves alone
HotkeyFrame == UNCHANGED <<audio_vars, in_vars, cm_vars>>

\* the HotKeys stored in REGISTRY
RegistryHotkeys == {e.hotkey : e \in REGISTRY}

\* register: parse_hotkey returns Err, nothing else runs
RegisterParseErr(id, b) ==
  /\ ParseHotkey(b) = <<>>
  /\ UNCHANGED hk_vars
  /\ HotkeyFrame

\* register: MANAGER is None and GlobalHotKeyManager::new() fails
RegisterManagerErr(id, b) ==
  /\ ParseHotkey(b) # <<>>
  /\ ~MANAGER
  /\ UNCHANGED hk_vars
  /\ HotkeyFrame

\* register: manager.register(hotkey) fails (already registered, or the
\* operating system refuses); a manager created by this call stays
RegisterOsErr(id, b) ==
  /\ ParseHotkey(b) # <<>>
  /\ MANAGER' = TRUE
  /\ UNCHANGED <<REGISTRY, os_registered>>
  /\ HotkeyFrame

\* register: everything succeeds; registry.insert replaces the entry of the id
RegisterOk(id, b) ==
  /\ ParseHotkey(b) # <<>>
  /\ ParseHotkey(b)[1] \notin os_registered
  /\ MANAGER' = TRUE
  /\ os_registered' = os_registered \cup {ParseHotkey(b)[1]}
  /\ REGISTRY' = {e \in REGISTRY : e.id # id}
                   \cup {[id |-> id, hotkey |-> ParseHotkey(b)[1], binding |-> b]}
  /\ HotkeyFrame

\* unregister of an id that is not in the registry: Ok, nothing happens
UnregisterAbsent(id) ==
  /\ \A e \in REGISTRY : e.id # id
  /\ UNCHANGED hk_vars
  /\ HotkeyFrame

\* unregister: registry.remove(id), then manager.unregister(hotkey) succeeds
\* (or MANAGER is None and nothing is called)
UnregisterOk(id) ==
  /\ \E e \in REGISTRY :
       /\ e.id = id
       /\ REGISTRY' = REGISTRY \ {e}
       /\ os_registered' = IF MANAGER THEN os_registered \ {e.hotkey} ELSE os_registered
  /\ UNCHANGED MANAGER
  /\ HotkeyFrame

\* unregister: registry.remove(id), then manager.unregister(hotkey) fails
UnregisterOsErr(id) ==
  /\ MANAGER
  /\ \E e \in REGISTRY :
       /\ e.id = id
       /\ REGISTRY' = REGISTRY \ {e}
  /\ UNCHANGED <<MANAGER, os_registered>>
  /\ HotkeyFrame

\* unregister_all: every manager call succeeds, then registry.clear()
UnregisterAllOk ==
  /\ os_registered' = IF MANAGER THEN os_registered \ RegistryHotkeys ELSE os_registered
  /\ REGISTRY' = {}
  /\ UNCHANGED MANAGER
  /\ HotkeyFrame

\* unregister_all: manager.unregister_all fails after unregistering some of
\* the hotkeys; the function returns before registry.clear()
UnregisterAllErr ==
  /\ MANAGER
  /\ REGISTRY # {}
  /\ \E done \in SUBSET RegistryHotkeys :
       /\ done # RegistryHotkeys
       /\ os_registered' = os_registered \ done
  /\ UNCHANGED <<REGISTRY, MANAGER>>
  /\ HotkeyFrame

NextHotkey ==
  \/ \E id \in HotkeyIds, b \in Bindings : RegisterParseErr(id, b)
  \/ \E id \in HotkeyIds, b \in Bindings : RegisterManagerErr(id, b)
  \/ \E id \in HotkeyIds, b \in Bindings : RegisterOsErr(id, b)
  \/ \E id \in HotkeyIds, b \in Bindings : RegisterOk(id, b)
  \/ \E id \in HotkeyIds : UnregisterAbsent(id)
  \/ \E id \in HotkeyIds : UnregisterOk(id)
  \/ \E id \in HotkeyIds : UnregisterOsErr(id)
  \/ UnregisterAllOk
  \/ UnregisterAllErr

SpecHotkey == Init /\ [][NextHotkey]_vars

\* C26: after any sequence of register, unregister and unregister_all calls,
\* the set of HotKeys stored in REGISTRY equals the set of HotKeys registered
\* with the operating system.
C26_RegistryMatchesOS == RegistryHotkeys = os_registered

\* two bindings are equivalent iff parse_hotkey maps both to the same HotKey
Equivalent(a, b) ==
  /\ ParseHotkey(a) # <<>>
  /\ ParseHotkey(a) = ParseHotkey(b)

\* C27: check_conflict_excluding(binding, exclude) answers true exactly when
\* a registered entry other than the excluded one has a binding that
\* parse_hotkey maps to the same Code and the same Modifiers.
C27_ConflictIffEquivalent ==
  \A b \in Bindings, x \in {<<>>} \cup {<<id>> : id \in HotkeyIds} :
    CheckConflictExcluding(b, x)
      <=> \E e \in REGISTRY : x # <<e.id>> /\ Equivalent(e.binding, b)


\* ===========================================================================
\* Keystroke simulation: postaction/input.rs (InputSimulator). The enigo
\* crate is outside the repository: a key event either succeeds and changes
\* what the keyboard holds, or returns an error; whether a press that
\* returned an error left the key down is not known.
\* ===========================================================================

\* the longest modifier list of a Keystroke used as input
MaxMods == 2

\* the modifier strings and key strings used as inputs
ModifierNames == {"ctrl", "SHIFT", "hyper"}
KeyNames == {"v", "A", "esc", "zz"}

\* the key strings of length 1 (key.len() == 1)
SingleChar == {"v", "A"}

\* the Keystroke values used as inputs
Keystrokes ==
  {[modifiers |-> m, key |-> k] :
     m \in UNION {[1..n -> ModifierNames] : n \in 0..MaxMods}, k \in KeyNames}

\* map_modifier: Ok(key) as <<key>>, Err("Unknown modifier") as <<>>
MapModifier(modifier) ==
  LET l == ToLower(modifier)
  IN CASE l \in {"ctrl", "control"} -> <<"Control">>
       [] l = "alt" -> <<"Alt">>
       [] l = "shift" -> <<"Shift">>
       [] l \in {"meta", "cmd", "command", "win", "super"} -> <<"Meta">>
       [] OTHER -> <<>>

\* map_key: Ok(key) as <<key>>, Err("Unknown key") as <<>>
MapKey(key) ==
  IF key \in SingleChar
  THEN <<<<"Unicode", ToLower(key)>>>>
  ELSE LET k == ToUpper(key)
       IN CASE k \in {"ENTER", "RETURN"} -> <<<<"Return", "">>>>
            [] k \in {"ESCAPE", "ESC"} -> <<<<"Escape", "">>>>
            [] OTHER -> <<>>

\* the keyboard after one successful key event
ApplyEvent(h, ev) ==
  CASE ev.dir = "Press" -> h \cup {ev.key}
    [] ev.dir = "Release" -> h \ {ev.key}
    [] OTHER -> h

RECURSIVE ApplyEvents(_, _)
\* the keyboard after a sequence of successful key events
ApplyEvents(h, evs) ==
  IF evs = <<>> THEN h
  ELSE ApplyEvents(ApplyEvent(h, Head(evs)), Tail(evs))

\* the first loop of simulate_keystroke: the number of modifiers pressed
\* before the loop ends or returns, when enigo call number fail returns an
\* error (0: no call fails)
PressedCount(mods, fail) ==
  LET n == Len(mods)
      bad == {p \in 1..n : MapModifier(mods[p]) = <<>> \/ p = fail}
  IN IF bad = {} THEN n
     ELSE (CHOOSE p \in bad : \A q \in bad : p <= q) - 1

\* the last loop of simulate_keystroke: the number of modifiers released
ReleasedCount(mods, fail) ==
  LET n == Len(mods)
  IN IF fail \in (n + 2)..(2 * n + 1) THEN fail - (n + 2) ELSE n

\* simulate_keystroke: the events sent and the value returned
KeystrokeRun(ks, fail) ==
  LET mods == ks.modifiers
      n == Len(mods)
      k == PressedCount(mods, fail)
      presses == [p \in 1..k |-> [key |-> <<MapModifier(mods[p])[1], "">>, dir |-> "Press"]]
      r == ReleasedCount(mods, fail)
      releases == [q \in 1..r |->
                     [key |-> <<MapModifier(mods[n + 1 - q])[1], "">>, dir |-> "Release"]]
  IN IF k < n \/ MapKey(ks.key) = <<>> \/ fail = n + 1
     THEN [events |-> presses, ret |-> "err"]
     ELSE [events |-> presses \o <<[key |-> MapKey(ks.key)[1], dir |-> "Click"]>> \o releases,
           ret |-> IF r < n THEN "err" ELSE "ok"]

\* the key whose event failed, when the failed event is a press
FailedPress(ks, fail) ==
  IF /\ fail \in 1..Len(ks.modifiers)
     /\ PressedCount(ks.modifiers, fail) = fail - 1
     /\ MapModifier(ks.modifiers[fail]) # <<>>
  THEN {<<MapModifier(ks.modifiers[fail])[1], "">>}
  ELSE {}

\* what an input action leaves alone
InputFrame == UNCHANGED <<audio_vars, hk_vars, cm_vars>>

\* InputSimulator::simulate_keystroke
SimulateKeystroke(ks, fail) ==
  /\ key_events' = KeystrokeRun(ks, fail).events
  /\ in_ret' = KeystrokeRun(ks, fail).ret
  /\ \E stuck \in SUBSET FailedPress(ks, fail) :
       held' = ApplyEvents(held, KeystrokeRun(ks, fail).events) \cup stuck
  /\ InputFrame

\* InputSimulator::paste: the modifier is Key::Meta on macOS and Key::Control
\* elsewhere; enigo call number fail returns an error (0: no call fails)
Paste(modifier, fail) ==
  LET all == << [key |-> <<modifier, "">>, dir |-> "Press"],
                [key |-> <<"Unicode", "v">>, dir |-> "Click"],
                [key |-> <<modifier, "">>, dir |-> "Release"] >>
      sent == IF fail = 0 THEN all ELSE SubSeq(all, 1, fail - 1)
  IN /\ key_events' = sent
     /\ in_ret' = IF fail = 0 THEN "ok" ELSE "err"
     /\ \E stuck \in SUBSET (IF fail = 1 THEN {<<modifier, "">>} ELSE {}) :
          held' = ApplyEvents(held, sent) \cup stuck
     /\ InputFrame

NextInput ==
  \/ \E ks \in Keystrokes, fail \in 0..(2 * MaxMods + 1) : SimulateKeystroke(ks, fail)
  \/ \E modifier \in {"Meta", "Control"}, fail \in 0..3 : Paste(modifier, fail)

SpecInput == Init /\ [][NextInput]_vars

\* C28: simulate_keystroke and paste leave no modifier key held down on any
\* return path: whenever a call has returned, the keyboard holds no key.
C28_NoModifierHeld == held = {}


\* ===========================================================================
\* Configuration files: config/manager.rs (load_config, load_backup,
\* save_config), config/validation.rs (validate_config), ai/roles.rs and the
\* role commands of lib.rs. File operations are taken to succeed; the text of
\* a file is modelled by what serde_json makes of it.
\* ===========================================================================

\* get_builtin_roles
BuiltinRoles ==
  << [id |-> "de-transcribe", name |-> "DE Transcribe", is_builtin |-> TRUE],
     [id |-> "de-en-translate", name |-> "DE-EN Translate", is_builtin |-> TRUE],
     [id |-> "beautify", name |-> "Beautify Text", is_builtin |-> TRUE],
     [id |-> "ai-response", name |-> "Format as AI Response", is_builtin |-> TRUE] >>

\* validate_config: the version is not empty and every hotkey is valid
\* (validate_hotkey, of which the id check is modelled)
ValidateConfig(c) ==
  /\ c.version # ""
  /\ \A p \in 1..Len(c.hotkeys) : c.hotkeys[p] # ""

\* load_backup: ret is <<>> for Err and <<config>> for Ok; main is the main
\* file afterwards
LoadBackup(main, backup) ==
  IF backup = <<>>
  THEN [ret |-> <<DefaultConfig>>, main |-> main]
  ELSE IF ~backup[1].parse \/ ~ValidateConfig(backup[1].cfg)
       THEN [ret |-> <<>>, main |-> main]
       ELSE [ret |-> <<backup[1].cfg>>, main |-> backup]

\* load_config
LoadConfig(main, backup) ==
  IF main = <<>>
  THEN [ret |-> <<[DefaultConfig EXCEPT !.roles = BuiltinRoles]>>, main |-> main]
  ELSE IF main[1].parse
       THEN LET config == IF main[1].cfg.roles = <<>>
                          THEN [main[1].cfg EXCEPT !.roles = BuiltinRoles]
                          ELSE main[1].cfg
            IN [ret |-> IF ValidateConfig(config) THEN <<config>> ELSE <<>>,
                main |-> main]
       ELSE LoadBackup(main, backup)

\* save_config: the two files afterwards and whether it returned Ok
SaveConfig(config, main, backup) ==
  IF ~ValidateConfig(config)
  THEN [ok |-> FALSE, main |-> main, backup |-> backup]
  ELSE [ok |-> TRUE,
        main |-> <<Parsed(config)>>,
        backup |-> IF main # <<>> THEN main ELSE backup]

\* the files and the history after a save_config(config) call
Saved(config) ==
  LET r == SaveConfig(config, main_file, backup_file)
  IN /\ main_file' = r.main
     /\ backup_file' = r.backup
     /\ pre_save' = IF r.ok THEN <<main_file>> ELSE pre_save
     /\ cm_last' = [op |-> "save", ok |-> r.ok, cfg |-> <<>>, unparsable |-> FALSE,
                    before |-> <<main_file, backup_file>>]

\* the files and the history after a load_config() call
Loaded ==
  LET r == LoadConfig(main_file, backup_file)
  IN /\ main_file' = r.main
     /\ cm_last' = [op |-> "load", ok |-> r.ret # <<>>, cfg |-> r.ret,
                    unparsable |-> main_file # <<>> /\ ~main_file[1].parse,
                    before |-> <<main_file, backup_file>>]
     /\ UNCHANGED <<backup_file, pre_save>>

\* the roles and the configurations used as inputs
RoleInputs ==
  {[id |-> i, name |-> "Custom", is_builtin |-> b] : i \in {"beautify", "c1"}, b \in BOOLEAN}

ConfigInputs ==
  {[version |-> v, hotkeys |-> h, roles |-> r] :
     v \in {"", "1.0.0"}, h \in {<<>>, <<"h1">>, <<"">>},
     r \in {<<>>, <<[id |-> "c1", name |-> "Custom", is_builtin |-> FALSE]>>}}

\* what a configuration action leaves alone
ConfigFrame == UNCHANGED <<audio_vars, hk_vars, in_vars>>

\* the save_config command (lib.rs) with save_config of config/manager.rs
CmdSaveConfig(config) ==
  /\ Saved(config)
  /\ UNCHANGED role_cmd
  /\ ConfigFrame

\* the get_config command (lib.rs) with load_config of config/manager.rs
CmdGetConfig ==
  /\ Loaded
  /\ UNCHANGED role_cmd
  /\ ConfigFrame

\* something outside the program rewrites the main file: text that does not
\* parse, or text that parses to a configuration with an empty version
ExternalEdit(content) ==
  /\ main_file # <<>>
  /\ main_file # <<content>>
  /\ main_file' = <<content>>
  /\ cm_last' = [NoCall EXCEPT !.op = "edit"]
  /\ UNCHANGED <<backup_file, pre_save, role_cmd>>
  /\ ConfigFrame

NextConfig ==
  \/ \E config \in ConfigInputs : CmdSaveConfig(config)
  \/ CmdGetConfig
  \/ \E content \in {Garbage, Parsed([DefaultConfig EXCEPT !.version = ""])} :
       ExternalEdit(content)

SpecConfig == Init /\ [][NextConfig]_vars


\* the backup file, when it exists, is the main file of just before the most
\* recent successful save_config
BackupIsPreSave == backup_file # <<>> => backup_file = pre_save[1]

\* a save_config that failed validation changed neither file
InvalidSaveNoChange ==
  cm_last.op = "save" /\ ~cm_last.ok => <<main_file, backup_file>> = cm_last.before

\* a load_config that found the main file unparsable, with a backup file
\* present, returned the backup's configuration and restored the main file
UnparsableLoadRestores ==
  cm_last.op = "load" /\ cm_last.unparsable /\ backup_file # <<>>
    => /\ cm_last.cfg = <<backup_file[1].cfg>>
       /\ main_file = backup_file

\* C30: the backup file, when it exists, holds what the main file held just
\* before the most recent successful save_config; a save_config that fails
\* validation changes neither file; a load_config that finds the main file
\* unparsable returns the backup's configuration and restores the main file
\* from the backup.
C30_BackupSemantics ==
  /\ BackupIsPreSave
  /\ InvalidSaveNoChange
  /\ UnparsableLoadRestores


\* ---------------------------------------------------------------------------
\* The role commands of lib.rs: save_ai_role and delete_ai_role are async
\* commands, so several may run at once; each first loads the configuration
\* and later saves its changed copy. The roles are the list load_config
\* fills with the built-in roles when it is empty.
\* ---------------------------------------------------------------------------

\* roles.iter().position(|r| r.id == id): 0 stands for None
Position(roles, id) ==
  LET hits == {p \in 1..Len(roles) : roles[p].id = id}
  IN IF hits = {} THEN 0 ELSE CHOOSE p \in hits : \A q \in hits : p <= q

\* Vec::remove(idx)
RemoveAt(roles, idx) ==
  [p \in 1..(Len(roles) - 1) |-> IF p < idx THEN roles[p] ELSE roles[p + 1]]

\* the command in flight t and what it loaded
Loaded_cfg(t) == role_cmd[t][1].cfg

\* the index the command in flight t finds for its role id
ExistingIdx(t) == Position(Loaded_cfg(t).roles, role_cmd[t][1].role.id)

\* save_ai_role / delete_ai_role up to the return of load_config: an Err of
\* load_config ends the command
RoleLoad(t, op, role) ==
  /\ role_cmd[t] = <<>>
  /\ Loaded
  /\ role_cmd' = [role_cmd EXCEPT ![t] =
       IF LoadConfig(main_file, backup_file).ret = <<>> THEN <<>>
       ELSE <<[op |-> op, role |-> role,
               cfg |-> LoadConfig(main_file, backup_file).ret[1]]>>]
  /\ ConfigFrame

\* a role command returns without touching the files
RoleReturnErr(t) ==
  /\ role_cmd' = [role_cmd EXCEPT ![t] = <<>>]
  /\ UNCHANGED <<main_file, backup_file, pre_save, cm_last>>
  /\ ConfigFrame

\* a role command saves its copy with the roles given and returns
RoleSave(t, roles) ==
  /\ Saved([Loaded_cfg(t) EXCEPT !.roles = roles])
  /\ role_cmd' = [role_cmd EXCEPT ![t] = <<>>]
  /\ ConfigFrame

\* save_ai_role: the id belongs to a built-in role, "Cannot modify built-in roles"
SaveAiRoleBuiltin(t) ==
  /\ role_cmd[t] # <<>> /\ role_cmd[t][1].op = "save"
  /\ ExistingIdx(t) # 0
  /\ Loaded_cfg(t).roles[ExistingIdx(t)].is_builtin
  /\ RoleReturnErr(t)

\* save_ai_role: the id exists and is not built-in: the role is replaced
SaveAiRoleUpdate(t) ==
  /\ role_cmd[t] # <<>> /\ role_cmd[t][1].op = "save"
  /\ ExistingIdx(t) # 0
  /\ ~Loaded_cfg(t).roles[ExistingIdx(t)].is_builtin
  /\ RoleSave(t, [Loaded_cfg(t).roles EXCEPT ![ExistingIdx(t)] = role_cmd[t][1].role])

\* save_ai_role: the id is new: the role is pushed
SaveAiRoleAdd(t) ==
  /\ role_cmd[t] # <<>> /\ role_cmd[t][1].op = "save"
  /\ ExistingIdx(t) = 0
  /\ RoleSave(t, Append(Loaded_cfg(t).roles, role_cmd[t][1].role))

\* delete_ai_role: the id belongs to a built-in role, "Cannot delete built-in roles"
DeleteAiRoleBuiltin(t) ==
  /\ role_cmd[t] # <<>> /\ role_cmd[t][1].op = "delete"
  /\ ExistingIdx(t) # 0
  /\ Loaded_cfg(t).roles[ExistingIdx(t)].is_builtin
  /\ RoleReturnErr(t)

\* delete_ai_role: the role is removed and the configuration saved
DeleteAiRoleOk(t) ==
  /\ role_cmd[t] # <<>> /\ role_cmd[t][1].op = "delete"
  /\ ExistingIdx(t) # 0
  /\ ~Loaded_cfg(t).roles[ExistingIdx(t)].is_builtin
  /\ RoleSave(t, RemoveAt(Loaded_cfg(t).roles, ExistingIdx(t)))

\* delete_ai_role: "Role not found"
DeleteAiRoleNotFound(t) ==
  /\ role_cmd[t] # <<>> /\ role_cmd[t][1].op = "delete"
  /\ ExistingIdx(t) = 0
  /\ RoleReturnErr(t)

NextRoles ==
  \/ \E t \in RoleCmds, role \in RoleInputs : RoleLoad(t, "save", role)
  \/ \E t \in RoleCmds, role \in {r \in RoleInputs : ~r.is_builtin} : RoleLoad(t, "delete", role)
  \/ \E t \in RoleCmds : SaveAiRoleBuiltin(t)
  \/ \E t \in RoleCmds : SaveAiRoleUpdate(t)
  \/ \E t \in RoleCmds : SaveAiRoleAdd(t)
  \/ \E t \in RoleCmds : DeleteAiRoleBuiltin(t)
  \/ \E t \in RoleCmds : DeleteAiRoleOk(t)
  \/ \E t \in RoleCmds : DeleteAiRoleNotFound(t)

SpecRoles == Init /\ [][NextRoles]_vars

\* the roles the main file stores with is_builtin = true
StoredBuiltin ==
  IF main_file # <<>> /\ main_file[1].parse
  THEN {main_file[1].cfg.roles[p] : p \in {q \in 1..Len(main_file[1].cfg.roles) :
                                             main_file[1].cfg.roles[q].is_builtin}}
  ELSE {}

\* C29: through any save_ai_role and delete_ai_role calls, every role stored
\* with is_builtin = true stays stored and unchanged.
C29_BuiltinRolesKept == [][\A r \in StoredBuiltin : r \in StoredBuiltin']_vars

====
